---- MODULE Spec2Model ----
(***************************************************************************)
(* Bank CSV standardisation pipeline: format detection                     *)
(* (BankDetector.detect_and_parse), the five bank adapters, the shared     *)
(* enrichment step and the batch orchestrator (standardize_files).         *)
(*                                                                         *)
(* A CSV file is a sequence of lines, a line a sequence of cells.  A cell  *)
(* is a record [k, v, s]:                                                  *)
(*   k = "blank"  empty cell (pandas reads it as NaN)                      *)
(*   k = "num"    plain numeric text, value v (e.g. -45)                   *)
(*   k = "deco"   numeric text written with $ or thousands separators,     *)
(*                value v (e.g. "$1,234")                                  *)
(*   k = "date"   date text, v = year*10000 + month*100 + day              *)
(*   k = "text"   any other text, s                                        *)
(* Values of a DataFrame are cells as well, plus k = "ts" (a Timestamp,    *)
(* v = year*10000 + month*100 + day); "blank" stands for NaN / NaT.        *)
(***************************************************************************)
EXTENDS Integers, Sequences, FiniteSets, TLC

(* ----------------------------- bounds ---------------------------------- *)
MaxRows == 2
MaxFiles == 2

(* ------------------------------ cells ---------------------------------- *)
Blank == [k |-> "blank", v |-> 0, s |-> ""]
Num(n) == [k |-> "num", v |-> n, s |-> ""]
Deco(n) == [k |-> "deco", v |-> n, s |-> ""]
DateTxt(n) == [k |-> "date", v |-> n, s |-> ""]
Text(t) == [k |-> "text", v |-> 0, s |-> t]
Ts(n) == [k |-> "ts", v |-> n, s |-> ""]

Range(q) == {q[i] : i \in DOMAIN q}

Min(a, b) == IF a < b THEN a ELSE b

Max(a, b) == IF a < b THEN b ELSE a

(* Python's `marker in text` on the texts the model uses. *)
SubstrTable ==
  { <<"Card: 1234", "Card:">>,
    <<"GIFT Card: REFILL", "Card:">>,
    <<"Time period of report: Jan 2024", "Time period of report:">>,
    <<"Beginning balance as of 01/01/2024", "Beginning balance">>,
    <<"Total credits", "Total credits">> }

Has(t, marker) == t = marker \/ <<t, marker>> \in SubstrTable

LineHas(line, marker) ==
  \E i \in DOMAIN line : line[i].k = "text" /\ Has(line[i].s, marker)

(* content = ''.join(first n lines); `marker in content` *)
ContentHas(lines, n, marker) ==
  \E i \in 1..Min(n, Len(lines)) : LineHas(lines[i], marker)

EndsWithDate(t) == t \in {"Date", "Post Date", "Posting Date", "Transaction Date"}

(* 'Date,Description,<third>,<fourth>...' in line: four consecutive cells  *)
(* whose comma-joined text contains the marker.                            *)
LineHasHeaderMarker(line, third, fourth) ==
  \E i \in 1..(Len(line) - 3) :
    /\ line[i].k = "text" /\ EndsWithDate(line[i].s)
    /\ line[i + 1] = Text("Description")
    /\ line[i + 2] = Text(third)
    /\ line[i + 3].k = "text" /\ line[i + 3].s \in fourth

(* --------------------------- DataFrames -------------------------------- *)
(* Column-oriented: cols is the column order, data maps a column name to   *)
(* its series (a sequence of n values).                                    *)
EmptyFrame == [cols |-> <<>>, data |-> <<>>, n |-> 0]

HasCol(df, c) == c \in Range(df.cols)

(* df[c] = series: the column is replaced in place or appended last *)
SetCol(df, c, series) ==
  [cols |-> IF HasCol(df, c) THEN df.cols ELSE Append(df.cols, c),
   data |-> [x \in Range(df.cols) \cup {c} |-> IF x = c THEN series ELSE df.data[x]],
   n |-> df.n]

Scalar(df, val) == [i \in 1..df.n |-> val]

ColName(cell) == IF cell.k = "text" THEN cell.s ELSE "Unnamed"

CellAt(row, p) == IF p <= Len(row) THEN row[p] ELSE Blank

Pos(q, x) == CHOOSE i \in DOMAIN q : q[i] = x /\ \A j \in 1..(i - 1) : q[j] # x

(* pd.read_csv(file_path, skiprows=k[, nrows=m]): empty lines are skipped; *)
(* the first line left is the header; the table is as wide as the wider of *)
(* the header and the first data line, and a later line with more fields   *)
(* is a tokenizing error; data fields beyond the header's count make the   *)
(* leading fields an implicit index, so every named column shifts right.   *)
Table(header, rows) ==
  LET width == IF Len(rows) = 0 THEN Len(header) ELSE Max(Len(header), Len(rows[1]))
      names == [i \in 1..Len(header) |-> ColName(header[i])]
  IN  IF \E r \in DOMAIN rows : Len(rows[r]) > width
      THEN [ok |-> FALSE, df |-> EmptyFrame]
      ELSE [ok |-> TRUE,
            df |-> [cols |-> names,
                    data |-> [c \in Range(names) |->
                               [r \in 1..Len(rows) |->
                                  CellAt(rows[r], width - Len(header) + Pos(names, c))]],
                    n |-> Len(rows)]]

ReadLive(live, nrows) ==
  IF Len(live) = 0 THEN [ok |-> FALSE, df |-> EmptyFrame]
  ELSE Table(live[1], SubSeq(live, 2, Min(Len(live), nrows + 1)))

ReadCsv(lines, skiprows, nrows) ==
  ReadLive(SelectSeq(SubSeq(lines, skiprows + 1, Len(lines)), LAMBDA l : Len(l) > 0),
           nrows)

(* ------------------------- pandas conversions -------------------------- *)
HasStr(series) == \E i \in DOMAIN series : series[i].k \notin {"blank", "num"}

(* Series.dtype == 'object': text somewhere, or a column without rows *)
DtypeObject(series) == Len(series) = 0 \/ HasStr(series)

(* pd.to_datetime: empty -> NaT, date text -> Timestamp, a Timestamp stays, *)
(* a number of a numeric column is nanoseconds after 1970-01-01; any other *)
(* text cannot be parsed and the call raises.                              *)
CanDatetime(series) ==
  \A i \in DOMAIN series :
    \/ series[i].k \in {"blank", "date", "ts"}
    \/ series[i].k = "num" /\ ~HasStr(series)

ToDatetime(series) ==
  [i \in DOMAIN series |->
     CASE series[i].k \in {"date", "ts"} -> Ts(series[i].v)
       [] series[i].k = "num" -> Ts(19700101)
       [] OTHER -> Blank]

(* pd.to_numeric(series): raises on text (errors='raise') *)
CanNumeric(series) == ~HasStr(series)

(* pd.to_numeric(series, errors='coerce'): text becomes NaN *)
ToNumericCoerce(series) ==
  [i \in DOMAIN series |-> IF series[i].k = "num" THEN series[i] ELSE Blank]

(* series.replace(r'[\$,]', '', regex=True) *)
StripCurrency(series) ==
  [i \in DOMAIN series |-> IF series[i].k = "deco" THEN Num(series[i].v) ELSE series[i]]

(* the empty cells left as NaN *)
FillNa0_Missing(series) == series

(* series.fillna(0) *)
FillNa0(series) ==
  [i \in DOMAIN series |-> IF series[i].k = "blank" THEN Num(0) ELSE series[i]]

(* series.astype(str): NaN becomes the text 'nan' *)
AsStr(series) ==
  [i \in DOMAIN series |-> IF series[i].k = "blank" THEN Text("nan") ELSE series[i]]

(* credit - debit, element by element, on numeric series: NaN where       *)
(* either side is NaN                                                      *)
Minus(credit, debit) ==
  [i \in DOMAIN credit |->
     IF credit[i].k = "num" /\ debit[i].k = "num"
     THEN Num(credit[i].v - debit[i].v)
     ELSE Blank]

Pad2(m) == IF m < 10 THEN "0" \o ToString(m) ELSE ToString(m)

(* the month written without its leading zero *)
StrftimeYm_NoPad(val) ==
  IF val.k = "ts"
  THEN Text(ToString(val.v \div 10000) \o "-" \o ToString((val.v \div 100) % 100))
  ELSE Blank

(* Timestamp.strftime('%Y-%m'); NaT gives NaN *)
StrftimeYm(val) ==
  IF val.k = "ts"
  THEN Text(ToString(val.v \div 10000) \o "-" \o Pad2((val.v \div 100) % 100))
  ELSE Blank

(* Timestamp.year; NaT gives NaN *)
DtYear(val) == IF val.k = "ts" THEN Num(val.v \div 10000) ELSE Blank

(* ------------------------- BankAdapter (base) -------------------------- *)
Raise(e) == [ok |-> FALSE, df |-> EmptyFrame, err |-> e]

Return(df) == [ok |-> TRUE, df |-> df, err |-> ""]

(* the identifier joined to a source the records already carry *)
_add_source_Joined(df, source_identifier) ==
  SetCol(df, "source",
         [r \in 1..df.n |->
            IF HasCol(df, "source")
            THEN Text(df.data["source"][r].s \o "," \o source_identifier)
            ELSE Text(source_identifier)])

_add_source(df, source_identifier) ==
  SetCol(df, "source", Scalar(df, Text(source_identifier)))

WithMonthYear(df) ==
  SetCol(SetCol(df, "month", [i \in 1..df.n |-> StrftimeYm(df.data["date"][i])]),
         "year", [i \in 1..df.n |-> DtYear(df.data["date"][i])])

_add_derived_fields(df) ==
  IF ~CanDatetime(df.data["date"]) THEN Raise("DateParseError")
  ELSE Return(WithMonthYear(SetCol(df, "date", ToDatetime(df.data["date"]))))

(* pd.DataFrame({'date': .., 'description': .., 'amount': .., 'type': ..,  *)
(* 'category': ..}): the columns in the order the dict lists them          *)
Standardized(n, date, description, amount, type, category) ==
  SetCol(SetCol(SetCol(SetCol(SetCol([cols |-> <<>>, data |-> <<>>, n |-> n],
                                     "date", date),
                              "description", description),
                       "amount", amount),
                "type", type),
         "category", category)

(* the derived fields added before the source *)
Enrich_DerivedFirst(df, source_identifier) ==
  IF ~CanDatetime(df.data["date"]) THEN Raise("DateParseError")
  ELSE Return(_add_source(_add_derived_fields(df).df, source_identifier))

(* standardized = self._add_source(standardized);                          *)
(* standardized = self._add_derived_fields(standardized); return           *)
Enrich(df, source_identifier) ==
  _add_derived_fields(_add_source(df, source_identifier))

MissingCols(df, needed) == \E c \in needed : ~HasCol(df, c)

(* the file read from its first line *)
HeaderRow_Top(lines, third, fourth) == 0

(* First line (0-based) holding the header marker, else 0 *)
HeaderRow(lines, third, fourth) ==
  IF \E i \in DOMAIN lines : LineHasHeaderMarker(lines[i], third, fourth)
  THEN (CHOOSE i \in DOMAIN lines :
          /\ LineHasHeaderMarker(lines[i], third, fourth)
          /\ \A j \in 1..(i - 1) : ~LineHasHeaderMarker(lines[j], third, fourth)) - 1
  ELSE 0

(* ------------------------- ChaseCreditAdapter -------------------------- *)
ChaseCreditColumns ==
  {"Transaction Date", "Post Date", "Description", "Category", "Type", "Amount", "Memo"}

ChaseCreditCanHandle(sample, f) == ChaseCreditColumns \subseteq Range(sample.cols)

ChaseCreditFrame(df, source_id) ==
  IF ~HasCol(df, "Transaction Date") THEN Raise("KeyError")
  ELSE IF ~CanDatetime(df.data["Transaction Date"]) THEN Raise("DateParseError")
  ELSE IF MissingCols(df, {"Description", "Amount", "Type", "Category"})
       THEN Raise("KeyError")
  ELSE Enrich(Standardized(df.n,
                           ToDatetime(df.data["Transaction Date"]),
                           df.data["Description"],
                           df.data["Amount"],
                           df.data["Type"],
                           df.data["Category"]),
              source_id)

ChaseCreditParse(f, source_id) ==
  IF ~f.exists \/ ~ReadCsv(f.lines, 0, Len(f.lines)).ok THEN Raise("ReadError")
  ELSE ChaseCreditFrame(ReadCsv(f.lines, 0, Len(f.lines)).df, source_id)

(* ------------------------ ChaseCheckingAdapter ------------------------- *)
ChaseCheckingColumns ==
  {"Details", "Posting Date", "Description", "Amount", "Type", "Balance"}

ChaseCheckingCanHandle(sample, f) == ChaseCheckingColumns \subseteq Range(sample.cols)

(* if 'Posting Date' in df.columns and df['Posting Date'].dtype == 'object' *)
ColumnsMisaligned(df) ==
  HasCol(df, "Posting Date") /\ DtypeObject(df.data["Posting Date"])

ChaseCheckingFrame(df, source_id) ==
  IF ColumnsMisaligned(df)
  THEN IF ~HasCol(df, "Details") THEN Raise("KeyError")
       ELSE IF ~CanDatetime(df.data["Details"]) THEN Raise("DateParseError")
       ELSE IF ~HasCol(df, "Description") THEN Raise("KeyError")
       ELSE IF ~CanNumeric(df.data["Description"]) THEN Raise("ValueError")
       ELSE IF ~HasCol(df, "Amount") THEN Raise("KeyError")
       ELSE Enrich(Standardized(df.n,
                                ToDatetime(df.data["Details"]),
                                AsStr(df.data["Posting Date"]),
                                df.data["Description"],
                                df.data["Amount"],
                                Scalar(df, Text("Checking"))),
                   source_id)
  ELSE IF ~HasCol(df, "Posting Date") THEN Raise("KeyError")
       ELSE IF ~CanDatetime(df.data["Posting Date"]) THEN Raise("DateParseError")
       ELSE IF ~HasCol(df, "Description") \/ ~HasCol(df, "Amount") THEN Raise("KeyError")
       ELSE IF ~CanNumeric(df.data["Amount"]) THEN Raise("ValueError")
       ELSE IF MissingCols(df, {"Details", "Type"}) THEN Raise("KeyError")
       ELSE Enrich(Standardized(df.n,
                                ToDatetime(df.data["Posting Date"]),
                                AsStr(df.data["Description"]),
                                df.data["Amount"],
                                df.data["Details"],
                                df.data["Type"]),
                   source_id)

ChaseCheckingParse(f, source_id) ==
  IF ~f.exists \/ ~ReadCsv(f.lines, 0, Len(f.lines)).ok THEN Raise("ReadError")
  ELSE ChaseCheckingFrame(ReadCsv(f.lines, 0, Len(f.lines)).df, source_id)

(* ----------------------------- SFCUAdapter ----------------------------- *)
SFCUColumns ==
  {"Account Number", "Post Date", "Description", "Debit", "Credit", "Category",
   "Status", "Balance"}

SFCUCanHandle(sample, f) == SFCUColumns \subseteq Range(sample.cols)

(* the columns taken the other way round *)
SFCUAmount_DebitMinusCredit(credit, debit) == Minus(FillNa0(debit), FillNa0(credit))

(* df['Credit'].fillna(0) - df['Debit'].fillna(0) *)
SFCUAmount(credit, debit) == Minus(FillNa0(credit), FillNa0(debit))

(* 'Credit' if pd.notna(row['Credit']) and row['Credit'] != 0 else 'Debit' *)
SFCUType(credit) ==
  [i \in DOMAIN credit |->
     IF credit[i].k # "blank" /\ credit[i].v # 0 THEN Text("Credit") ELSE Text("Debit")]

SFCUFrame(df, source_id) ==
  IF MissingCols(df, {"Credit", "Debit"}) THEN Raise("KeyError")
  ELSE IF HasStr(df.data["Credit"]) \/ HasStr(df.data["Debit"]) THEN Raise("TypeError")
  ELSE IF ~HasCol(df, "Post Date") THEN Raise("KeyError")
  ELSE IF ~CanDatetime(df.data["Post Date"]) THEN Raise("DateParseError")
  ELSE IF MissingCols(df, {"Description", "Category"}) THEN Raise("KeyError")
  ELSE Enrich(Standardized(df.n,
                           ToDatetime(df.data["Post Date"]),
                           df.data["Description"],
                           SFCUAmount(df.data["Credit"], df.data["Debit"]),
                           SFCUType(df.data["Credit"]),
                           df.data["Category"]),
              source_id)

SFCUParse(f, source_id) ==
  IF ~f.exists \/ ~ReadCsv(f.lines, 0, Len(f.lines)).ok THEN Raise("ReadError")
  ELSE SFCUFrame(ReadCsv(f.lines, 0, Len(f.lines)).df, source_id)

(* ----------------------------- CitiAdapter ----------------------------- *)
CitiCanHandle(sample, f) ==
  /\ f.exists
  /\ \/ ContentHas(f.lines, 5, "Card:")
     \/ ContentHas(f.lines, 5, "Time period of report:")

(* pd.to_numeric(col.replace(r'[\$,]', '', regex=True), errors='coerce').fillna(0) *)
CitiClean(series) == FillNa0(ToNumericCoerce(StripCurrency(series)))

CitiAmount(credit, debit) == Minus(CitiClean(credit), CitiClean(debit))

(* 'Credit' if row['Credit'] != 0 else 'Debit' *)
CitiType(credit) ==
  [i \in DOMAIN credit |->
     IF CitiClean(credit)[i].v # 0 THEN Text("Credit") ELSE Text("Debit")]

CitiFrame(df, source_id) ==
  IF MissingCols(df, {"Debit", "Credit"}) THEN Raise("KeyError")
  ELSE IF ~HasCol(df, "Date") THEN Raise("KeyError")
  ELSE IF ~CanDatetime(df.data["Date"]) THEN Raise("DateParseError")
  ELSE IF MissingCols(df, {"Description", "Category"}) THEN Raise("KeyError")
  ELSE Enrich(Standardized(df.n,
                           ToDatetime(df.data["Date"]),
                           df.data["Description"],
                           CitiAmount(df.data["Credit"], df.data["Debit"]),
                           CitiType(df.data["Credit"]),
                           df.data["Category"]),
              source_id)

CitiRead(f, header_row, source_id) ==
  IF ~f.exists \/ ~ReadCsv(f.lines, header_row, Len(f.lines)).ok THEN Raise("ReadError")
  ELSE CitiFrame(ReadCsv(f.lines, header_row, Len(f.lines)).df, source_id)

CitiParse(f, source_id) == CitiRead(f, HeaderRow(f.lines, "Debit", {"Credit"}), source_id)

(* ----------------------------- BofAAdapter ----------------------------- *)
BofACanHandle(sample, f) ==
  /\ f.exists
  /\ ContentHas(f.lines, 10, "Beginning balance")
  /\ ContentHas(f.lines, 10, "Total credits")

(* rows without a description left out as well (na=True) *)
BofAKept_NaTrue(description) ==
  SelectSeq([i \in DOMAIN description |-> i],
            LAMBDA i : description[i].k = "text"
                       /\ ~Has(description[i].s, "Beginning balance"))

(* df[~df['Description'].str.contains('Beginning balance', na=False)]:     *)
(* the positions of the rows that are kept                                 *)
BofAKept(description) ==
  SelectSeq([i \in DOMAIN description |-> i],
            LAMBDA i : ~(description[i].k = "text"
                         /\ Has(description[i].s, "Beginning balance")))

Take(series, kept) == [j \in DOMAIN kept |-> series[kept[j]]]

(* pd.to_numeric(col.replace(r'[\$,]', '', regex=True), errors='coerce') *)
BofAAmount(amount) == ToNumericCoerce(StripCurrency(amount))

(* 'Credit' if x > 0 else 'Debit' *)
BofAType(amount) ==
  [i \in DOMAIN amount |->
     IF amount[i].k = "num" /\ amount[i].v > 0 THEN Text("Credit") ELSE Text("Debit")]

BofAStandardized(df, kept, amount, source_id) ==
  IF ~HasCol(df, "Date") THEN Raise("KeyError")
  ELSE IF ~CanDatetime(Take(df.data["Date"], kept)) THEN Raise("DateParseError")
  ELSE Enrich(Standardized(Len(kept),
                           ToDatetime(Take(df.data["Date"], kept)),
                           Take(df.data["Description"], kept),
                           amount,
                           BofAType(amount),
                           [j \in DOMAIN kept |-> Text("Uncategorized")]),
              source_id)

BofAFiltered(df, kept, source_id) ==
  BofAStandardized(df, kept, BofAAmount(Take(df.data["Amount"], kept)), source_id)

BofAFrame(df, source_id) ==
  IF ~HasCol(df, "Description") THEN Raise("KeyError")
  ELSE IF ~DtypeObject(df.data["Description"]) THEN Raise("AttributeError")
  ELSE IF ~HasCol(df, "Amount") THEN Raise("KeyError")
  ELSE BofAFiltered(df, BofAKept(df.data["Description"]), source_id)

BofARead(f, header_row, source_id) ==
  IF ~f.exists \/ ~ReadCsv(f.lines, header_row, Len(f.lines)).ok THEN Raise("ReadError")
  ELSE BofAFrame(ReadCsv(f.lines, header_row, Len(f.lines)).df, source_id)

BofAParse(f, source_id) ==
  BofARead(f, HeaderRow(f.lines, "Amount", {"Running Bal", "Running Bal."}), source_id)

(* ---------------------------- BankDetector ----------------------------- *)
RECURSIVE Concat(_)
Concat(tokens) ==
  IF Len(tokens) = 0 THEN "" ELSE Head(tokens) \o Concat(Tail(tokens))

(* os.path.basename(file_path) *)
Basename(f) == Concat(f.name)

FilePath(f) == f.dir \o "/" \o Basename(f)

(* only the lower-case extension removed *)
SourceId_LowerOnly(f) == Concat(SelectSeq(f.name, LAMBDA t : t # ".csv"))

(* filename.replace('.csv', '').replace('.CSV', '') *)
SourceId(f) ==
  Concat(SelectSeq(SelectSeq(f.name, LAMBDA t : t # ".csv"), LAMBDA t : t # ".CSV"))

(* df_sample = pd.read_csv(file_path, nrows=5), an empty DataFrame when    *)
(* the read raises                                                         *)
SampleRows == 5

SampleOf(f, rd) == IF f.exists /\ rd.ok THEN rd.df ELSE EmptyFrame

DfSample(f) == SampleOf(f, ReadCsv(f.lines, 0, SampleRows))

(* the header-set adapters asked before the content-sniffing ones *)
adapters_HeaderSetFirst ==
  <<"ChaseCreditAdapter", "ChaseCheckingAdapter", "SFCUAdapter", "CitiAdapter",
    "BofAAdapter">>

adapters ==
  <<"CitiAdapter", "BofAAdapter", "ChaseCreditAdapter", "ChaseCheckingAdapter",
    "SFCUAdapter">>

can_handle(a, sample, f) ==
  CASE a = "CitiAdapter" -> CitiCanHandle(sample, f)
    [] a = "BofAAdapter" -> BofACanHandle(sample, f)
    [] a = "ChaseCreditAdapter" -> ChaseCreditCanHandle(sample, f)
    [] a = "ChaseCheckingAdapter" -> ChaseCheckingCanHandle(sample, f)
    [] a = "SFCUAdapter" -> SFCUCanHandle(sample, f)

parse(a, f, source_id) ==
  CASE a = "CitiAdapter" -> CitiParse(f, source_id)
    [] a = "BofAAdapter" -> BofAParse(f, source_id)
    [] a = "ChaseCreditAdapter" -> ChaseCreditParse(f, source_id)
    [] a = "ChaseCheckingAdapter" -> ChaseCheckingParse(f, source_id)
    [] a = "SFCUAdapter" -> SFCUParse(f, source_id)

(* for adapter in adapters: if adapter.can_handle(df_sample, file_path):   *)
(* the adapters asked, in order, up to and including the first to accept   *)
RECURSIVE Probe(_, _, _)
Probe(sample, f, i) ==
  IF i > Len(adapters) THEN <<>>
  ELSE IF can_handle(adapters[i], sample, f) THEN <<adapters[i]>>
  ELSE <<adapters[i]>> \o Probe(sample, f, i + 1)

(* a detector that falls back to the last adapter when none accepts *)
Dispatch_DefaultParser(f, source_id, probed, found) ==
  [adapter |-> probed[Len(probed)], parsed |-> <<probed[Len(probed)]>>,
   probed |-> probed, r |-> parse(probed[Len(probed)], f, source_id), errpath |-> ""]

(* return adapter.parse(file_path), or the ValueError after the loop *)
Dispatch(f, source_id, probed, found) ==
  IF found
  THEN [adapter |-> probed[Len(probed)], parsed |-> <<probed[Len(probed)]>>,
        probed |-> probed, r |-> parse(probed[Len(probed)], f, source_id), errpath |-> ""]
  ELSE [adapter |-> "", parsed |-> <<>>, probed |-> probed,
        r |-> Raise("Could not detect bank format for"), errpath |-> FilePath(f)]

Probed(f, sample, probed) ==
  Dispatch(f, SourceId(f), probed,
           Len(probed) > 0 /\ can_handle(probed[Len(probed)], sample, f))

Sampled(f, sample) == Probed(f, sample, Probe(sample, f, 1))

detect_and_parse(f) == Sampled(f, DfSample(f))

(* ------------------------- standardize_csv.py -------------------------- *)
VARIABLES
  input_files,      \* args.files: the files given on the command line, in order
  skip_merged,      \* --skip-merged
  skip_individual,  \* --skip-individual
  merged_output,    \* --merged-output
  pc,               \* "main", "loop", "done" or "exit"
  dirs,             \* directories created by ensure_directory
  i,                \* position in input_files of the file handled next
  all_transactions, \* the DataFrames of the files parsed so far
  processed_count,
  failed_files,     \* (file_path, str(e)) of the files that raised
  skipped,          \* the "Skipping" lines printed
  written,          \* the to_csv calls made: path and DataFrame
  report,           \* what the end of the run printed
  last              \* the latest detect_and_parse call and what it returned

(* agent/subagents/nl2sql/tools.py *)
VARIABLES
  sql_query,        \* the argument of the execute_sql_tool call, as characters
  executed,         \* the statements handed to con.sql, in order
  sql_return        \* what execute_sql_tool returned

(* extract_schema_from_dataframe, in agent/tools.py and nl2sql/tools.py *)
VARIABLES
  df_dtypes,        \* the dtype of each column of the DataFrame, in column order
  schemas           \* the schema each copy of the function returned

(* process_transactions_by_merchant, in classify_by_merchant.py *)
VARIABLES
  descriptions,        \* the description column of the CSV read, row by row
  batch_size,          \* the batch_size argument
  cls_pc,              \* where process_transactions_by_merchant is
  merchant_stats,      \* the unique merchants with their counts, most frequent first
  batch_num,           \* the batches done so far
  batch_calls,         \* the classify_merchants_batch calls: batch and outcome
  merchant_categories, \* description -> entry
  results              \* the rows of the classified output

(* EvalRunner.run_agent, in evals/run_evals.py *)
VARIABLES
  attempt,          \* the attempt of the retry loop, counted from 0
  outcomes,         \* what every attempt so far did: answered or raised, and the text
  slept,            \* the delays asyncio.sleep was awaited with, in order
  eval_pc,          \* where run_agent is
  run_return        \* what run_agent returned, as characters

pipeline_vars ==
  <<input_files, skip_merged, skip_individual, merged_output, pc, dirs, i,
    all_transactions, processed_count, failed_files, skipped, written, report, last>>

sql_vars == <<sql_query, executed, sql_return>>

schema_vars == <<df_dtypes, schemas>>

classify_vars ==
  <<descriptions, batch_size, cls_pc, merchant_stats, batch_num, batch_calls,
    merchant_categories, results>>

eval_vars == <<attempt, outcomes, slept, eval_pc, run_return>>

other_vars == <<sql_vars, schema_vars, classify_vars, eval_vars>>

vars == <<pipeline_vars, other_vars>>

(* no call of execute_sql_tool is under way *)
SqlIdle == sql_query = <<>> /\ executed = <<>> /\ sql_return = ""

(* the programs other than standardize_csv.py are not running *)
NoSchema == <<>>

SchemaIdle == df_dtypes = <<>> /\ schemas = NoSchema

NoEntries == <<>>

ClassifyIdle ==
  /\ descriptions = <<>> /\ batch_size = 1 /\ cls_pc = "off"
  /\ merchant_stats = <<>> /\ batch_num = 0 /\ batch_calls = <<>>
  /\ merchant_categories = NoEntries /\ results = <<>>

EvalIdle ==
  /\ attempt = 0 /\ outcomes = <<>> /\ slept = <<>>
  /\ eval_pc = "off" /\ run_return = <<>>

OthersIdle == SqlIdle /\ SchemaIdle /\ ClassifyIdle /\ EvalIdle

output_dir == "data/standardized"

skip_patterns == <<"category_overrides", "transactions_", "reclassified_", "_standardized">>

(* str.lower() of the name parts that hold upper-case letters *)
Lower(t) ==
  CASE t = "Chase6559" -> "chase6559"
    [] t = "AR_SFCU" -> "ar_sfcu"
    [] t = ".CSV" -> ".csv"
    [] t = "Transactions_" -> "transactions_"
    [] OTHER -> t

(* the patterns looked for in the name as written *)
IsOutputFile_CaseSensitive(f) ==
  \E p \in DOMAIN skip_patterns : \E t \in DOMAIN f.name :
    Has(f.name[t], skip_patterns[p])

(* any(pattern in filename.lower() for pattern in skip_patterns) *)
IsOutputFile(f) ==
  \E p \in DOMAIN skip_patterns : \E t \in DOMAIN f.name :
    Has(Lower(f.name[t]), skip_patterns[p])

IsSuffix(t) == t \in {".csv", ".CSV", ".bak", ".txt"}

(* Path(filename).stem: the name without its last suffix *)
Stem(f) ==
  IF Len(f.name) > 1 /\ IsSuffix(f.name[Len(f.name)])
  THEN Concat(SubSeq(f.name, 1, Len(f.name) - 1))
  ELSE Concat(f.name)

(* os.path.join(output_dir, f"{Path(filename).stem}_standardized.csv") *)
OutputPath(f) == output_dir \o "/" \o Stem(f) \o "_standardized.csv"

(* pd.concat(all_transactions, ignore_index=True) *)
Concat2(a, b) ==
  [cols |-> a.cols \o SelectSeq(b.cols, LAMBDA c : ~HasCol(a, c)),
   data |-> [c \in Range(a.cols) \cup Range(b.cols) |->
               (IF HasCol(a, c) THEN a.data[c] ELSE Scalar(a, Blank))
               \o (IF HasCol(b, c) THEN b.data[c] ELSE Scalar(b, Blank))],
   n |-> a.n + b.n]

(* only the first file's records are kept *)
ConcatFrames_First(frames) == frames[1]

RECURSIVE ConcatFrames(_)
ConcatFrames(frames) ==
  IF Len(frames) = 1 THEN frames[1]
  ELSE Concat2(frames[1], ConcatFrames(Tail(frames)))

(* sort_values('date') orders by date with NaT last; rows of equal date    *)
(* keep their order (the sort is an insertion sort on inputs this short)   *)
Before(keys, a, b) ==
  \/ keys[a].k = "ts" /\ keys[b].k # "ts"
  \/ keys[a].k = "ts" /\ keys[b].k = "ts" /\ keys[a].v < keys[b].v
  \/ /\ (keys[a].k = "ts") = (keys[b].k = "ts")
     /\ (keys[a].k = "ts" => keys[a].v = keys[b].v)
     /\ a < b

SortPerm(keys) ==
  [j \in DOMAIN keys |->
     CHOOSE a \in DOMAIN keys :
       Cardinality({b \in DOMAIN keys : Before(keys, b, a)}) = j - 1]

(* merged_df.sort_values('date').reset_index(drop=True) *)
Permuted(df, perm) ==
  [cols |-> df.cols,
   data |-> [c \in Range(df.cols) |-> [j \in 1..df.n |-> df.data[c][perm[j]]]],
   n |-> df.n]

(* the rows left in the order of the files *)
SortByDate_AsGiven(df) == df

SortByDate(df) == Permuted(df, SortPerm(df.data["date"]))

(* merged_df['source'].value_counts() *)
ValueCounts(series) ==
  {<<x.s, Cardinality({j \in DOMAIN series : series[j] = x})>> : x \in Range(series)}

Dates(series) == {series[j].v : j \in {k \in DOMAIN series : series[k].k = "ts"}}

(* merged_df['date'].min() / .max(): NaT when there is no date *)
DateMin(series) ==
  IF Dates(series) = {} THEN Blank
  ELSE Ts(CHOOSE d \in Dates(series) : \A e \in Dates(series) : d <= e)

DateMax(series) ==
  IF Dates(series) = {} THEN Blank
  ELSE Ts(CHOOSE d \in Dates(series) : \A e \in Dates(series) : d >= e)

NoCall ==
  [i |-> 0, ok |-> FALSE, adapter |-> "", parsed |-> <<>>, probed |-> <<>>,
   df |-> EmptyFrame, err |-> "", errpath |-> ""]

Call(k, d) ==
  [i |-> k, ok |-> d.r.ok, adapter |-> d.adapter, parsed |-> d.parsed,
   probed |-> d.probed, df |-> d.r.df, err |-> d.r.err, errpath |-> d.errpath]

NoReport ==
  [merged |-> FALSE, processed |-> 0, given |-> 0, total |-> 0, breakdown |-> {},
   date_min |-> Blank, date_max |-> Blank, failed |-> <<>>, complete |-> FALSE]

(* --------------------------- input files ------------------------------- *)
(* The rows a bank writes, by meaning; each format lays them out in its    *)
(* own columns.  A split row has a Debit and a Credit cell, a signed row   *)
(* one Amount cell.                                                        *)
SplitRow(date, desc, debit, credit, cat) ==
  [date |-> date, desc |-> desc, debit |-> debit, credit |-> credit, cat |-> cat]

SignedRow(date, desc, amount, type, cat) ==
  [date |-> date, desc |-> desc, amount |-> amount, type |-> type, cat |-> cat]

SplitRows ==
  { SplitRow(DateTxt(20240105), Text("COFFEE SHOP"), p[1], p[2], Text("Dining")) :
      p \in { <<Num(45), Blank>>, <<Blank, Num(200)>>, <<Blank, Blank>>,
              <<Num(45), Num(200)>>, <<Num(200), Num(45)>>, <<Deco(1234), Blank>>, <<Blank, Deco(1234)>>,
              <<Text("pending"), Blank>> } }
  \cup
  { SplitRow(Blank, Text("COFFEE SHOP"), Num(45), Blank, Text("Dining")),
    SplitRow(DateTxt(20231231), Text("PAYROLL"), Blank, Num(200), Blank),
    SplitRow(Text("pending"), Blank, Num(45), Blank, Text("Dining")) }

SignedRows ==
  { SignedRow(DateTxt(20240105), Text("COFFEE SHOP"), a, Text("Sale"), Text("Dining")) :
      a \in { Num(-45), Num(2000), Deco(-1234), Text("pending"), Blank } }
  \cup
  { SignedRow(Blank, Text("COFFEE SHOP"), Num(-45), Text("Sale"), Text("Dining")),
    SignedRow(DateTxt(20231231), Text("GIFT Card: REFILL"), Num(2000), Text("Payment"), Blank),
    SignedRow(Text("pending"), Blank, Num(-45), Text("Sale"), Text("Dining")),
    SignedRow(DateTxt(20240103), Num(1234), Num(-45), Blank, Text("Dining")),
    SignedRow(Num(20240105), Blank, Num(2000), Text("Sale"), Text("Dining")) }

RowSeqs(S) == UNION {[1..n -> S] : n \in 1..MaxRows}

Header(names) == [k \in DOMAIN names |-> Text(names[k])]

SFCUHeader ==
  Header(<<"Account Number", "Post Date", "Description", "Debit", "Credit", "Category",
           "Status", "Balance">>)

SFCULines(rows) ==
  <<SFCUHeader>> \o
  [k \in DOMAIN rows |->
     <<Num(1001), rows[k].date, rows[k].desc, rows[k].debit, rows[k].credit,
       rows[k].cat, Text("Posted"), Num(5000)>>]

CitiHeader == Header(<<"Status", "Date", "Description", "Debit", "Credit", "Category">>)

CitiLines(rows) ==
  << <<Text("Card: 1234")>>, <<Text("Time period of report: Jan 2024")>>, <<>>,
     CitiHeader >> \o
  [k \in DOMAIN rows |->
     <<Text("Cleared"), rows[k].date, rows[k].desc, rows[k].debit, rows[k].credit,
       rows[k].cat>>]

ChaseCreditHeader ==
  Header(<<"Transaction Date", "Post Date", "Description", "Category", "Type", "Amount",
           "Memo">>)

ChaseCreditLines(rows) ==
  <<ChaseCreditHeader>> \o
  [k \in DOMAIN rows |->
     <<rows[k].date, rows[k].date, rows[k].desc, rows[k].cat, rows[k].type,
       rows[k].amount, Blank>>]

ChaseCheckingHeader ==
  Header(<<"Details", "Posting Date", "Description", "Amount", "Type", "Balance",
           "Check or Slip #">>)

(* the export as the header describes it: Details, Posting Date,          *)
(* Description, Amount, Type, Balance, Check or Slip #                     *)
ChaseCheckingLines(rows) ==
  <<ChaseCheckingHeader>> \o
  [k \in DOMAIN rows |->
     <<Text("DEBIT"), rows[k].date, rows[k].desc, rows[k].amount, Text("ACH_DEBIT"),
       Num(5000), Blank>>]

(* the export with a trailing delimiter on every data line: one field more *)
(* than the header names                                                   *)
ChaseCheckingShiftedLines(rows) ==
  <<ChaseCheckingHeader>> \o
  [k \in DOMAIN rows |->
     <<Text("DEBIT"), rows[k].date, rows[k].desc, rows[k].amount, Text("ACH_DEBIT"),
       Num(5000), Blank, Blank>>]

BofAHeader == Header(<<"Date", "Description", "Amount", "Running Bal.">>)

BofABanner ==
  << <<Text("Description"), Blank, Text("Summary Amt.")>>,
     <<Text("Beginning balance as of 01/01/2024"), Blank, Deco(1000)>>,
     <<Text("Total credits"), Blank, Deco(500)>>,
     <<>> >>

BofALines(rows) ==
  BofABanner \o
  << BofAHeader,
     <<DateTxt(20240101), Text("Beginning balance as of 01/01/2024"), Blank, Deco(1000)>> >>
  \o
  [k \in DOMAIN rows |->
     <<rows[k].date, rows[k].desc, rows[k].amount, Deco(5000)>>]

File(bank, rows, shifted, name, exists, lines) ==
  [bank |-> bank, rows |-> rows, shifted |-> shifted,
   dir |-> "data", name |-> name, exists |-> exists, lines |-> lines]

ChaseName == <<"Chase6559", ".CSV">>

(* the exports of the five banks *)
BankFiles ==
  {File("SFCU", r, FALSE, ChaseName, TRUE, SFCULines(r)) : r \in RowSeqs(SplitRows)}
  \cup
  {File("Citi", r, FALSE, ChaseName, TRUE, CitiLines(r)) : r \in RowSeqs(SplitRows)}
  \cup
  {File("ChaseCredit", r, FALSE, ChaseName, TRUE, ChaseCreditLines(r)) :
     r \in RowSeqs(SignedRows)}
  \cup
  {File("ChaseChecking", r, FALSE, ChaseName, TRUE, ChaseCheckingLines(r)) :
     r \in RowSeqs(SignedRows)}
  \cup
  {File("ChaseChecking", r, TRUE, ChaseName, TRUE, ChaseCheckingShiftedLines(r)) :
     r \in RowSeqs(SignedRows)}
  \cup
  {File("BofA", r, FALSE, ChaseName, TRUE, BofALines(r)) : r \in RowSeqs(SignedRows)}

CoffeeDebit ==
  <<SplitRow(DateTxt(20240105), Text("COFFEE SHOP"), Num(45), Blank, Text("Dining"))>>

Payroll ==
  <<SignedRow(DateTxt(20240103), Text("PAYROLL"), Num(2000), Text("ACH_CREDIT"),
              Text("Income"))>>

(* files of no supported bank, and files that carry the marks of several *)
OtherFiles ==
  { File("none", <<>>, FALSE, <<"notes", ".csv">>, TRUE,
         << Header(<<"foo", "bar">>), <<Num(1), Num(2)>> >>),
    File("none", <<>>, FALSE, <<"empty", ".csv">>, TRUE, <<>>),
    File("none", <<>>, FALSE, <<"banners", ".csv">>, TRUE,
         <<<<Text("Card: 1234")>>>> \o BofALines(Payroll)),
    File("none", <<>>, FALSE, <<"wide", ".csv">>, TRUE,
         << ChaseCreditHeader \o ChaseCheckingHeader \o SFCUHeader >>),
    File("Citi", CoffeeDebit, FALSE, <<"citi_summary", ".csv">>, TRUE,
         << <<Text("Card: 1234")>>,
            <<Text("Cleared"), DateTxt(20231231), Text("PAYROLL"), Blank, Num(200),
              Text("Income")>>,
            <<>>, CitiHeader,
            <<Text("Cleared"), DateTxt(20240105), Text("COFFEE SHOP"), Num(45), Blank,
              Text("Dining")>> >>),
    File("BofA", Payroll, FALSE, <<"bofa_summary", ".csv">>, TRUE,
         << <<Text("Beginning balance as of 01/01/2024"), Blank, Deco(1000)>>,
            <<Text("Total credits"), Blank, Deco(500)>>,
            <<DateTxt(20231231), Text("COFFEE SHOP"), Num(-45), Deco(1000)>>,
            <<>>, BofAHeader,
            <<DateTxt(20240101), Text("Beginning balance as of 01/01/2024"), Blank,
              Deco(1000)>>,
            <<DateTxt(20240103), Text("PAYROLL"), Num(2000), Deco(5000)>> >>),
    File("SFCU", CoffeeDebit, FALSE, <<"AR_SFCU", ".csv">>, TRUE, SFCULines(CoffeeDebit)),
    File("SFCU", CoffeeDebit \o CoffeeDebit, FALSE, <<"export", ".csv", ".bak", ".csv">>,
         TRUE, SFCULines(CoffeeDebit \o CoffeeDebit)),
    File("SFCU", CoffeeDebit, FALSE, <<"gone", ".csv">>, FALSE, SFCULines(CoffeeDebit)),
    File("SFCU", CoffeeDebit, FALSE, <<"AR_SFCU", "_standardized", ".csv">>, TRUE,
         SFCULines(CoffeeDebit)),
    File("none", <<>>, FALSE, <<"Transactions_", "merged", ".csv">>, TRUE,
         << Header(<<"date", "description", "amount", "type", "category", "source",
                     "month", "year">>) >>) }

FileUniverse == BankFiles \cup OtherFiles

(* a Citi export whose first row has no date *)
UndatedFirst ==
  <<SplitRow(Blank, Text("COFFEE SHOP"), Num(45), Blank, Text("Dining")),
    SplitRow(DateTxt(20231231), Text("PAYROLL"), Blank, Num(200), Blank)>>

(* the files of the batch runs *)
BatchFiles ==
  { f \in OtherFiles : f.name[1] \in {"AR_SFCU", "notes", "gone"} }
  \cup
  { File("ChaseChecking", Payroll, TRUE, ChaseName, TRUE, ChaseCheckingShiftedLines(Payroll)),
    File("Citi", CoffeeDebit, FALSE, <<"citi", ".csv">>, TRUE, CitiLines(CoffeeDebit)),
    File("Citi", UndatedFirst, FALSE, <<"citi_old", ".csv">>, TRUE, CitiLines(UndatedFirst)),
    File("BofA", Payroll, FALSE, <<"bofa", ".csv">>, TRUE, BofALines(Payroll)),
    [File("ChaseCredit", Payroll, FALSE, <<"citi", ".csv">>, TRUE, ChaseCreditLines(Payroll))
       EXCEPT !.dir = "archive"],
    File("ChaseChecking", Payroll, FALSE, <<"checking", ".csv">>, TRUE,
         ChaseCheckingLines(Payroll)) }

DefaultMerged == "data/transactions_merged.csv"

(* ------------------------------- main ---------------------------------- *)
InitCommon ==
  /\ skip_merged \in BOOLEAN
  /\ skip_individual \in BOOLEAN
  /\ pc = "main"
  /\ dirs = {}
  /\ i = 1
  /\ all_transactions = <<>>
  /\ processed_count = 0
  /\ failed_files = <<>>
  /\ skipped = <<>>
  /\ written = <<>>
  /\ report = NoReport
  /\ last = NoCall
  /\ OthersIdle

(* one input file, any file of the universe *)
Init ==
  /\ input_files \in {<<f>> : f \in FileUniverse}
  /\ merged_output = DefaultMerged
  /\ InitCommon

(* up to MaxFiles input files *)
InitBatch ==
  /\ input_files \in UNION {[1..n -> BatchFiles] : n \in 1..MaxFiles}
  /\ merged_output \in {DefaultMerged, "all_transactions.csv"}
  /\ InitCommon

(* the flags tested after the output directory is made *)
MainReject_AfterDirectory ==
  /\ pc = "main"
  /\ skip_merged /\ skip_individual
  /\ pc' = "exit"
  /\ dirs' = dirs \cup {output_dir}
  /\ UNCHANGED <<input_files, skip_merged, skip_individual, merged_output, i,
                 all_transactions, processed_count, failed_files, skipped, written,
                 report, last>>
  /\ UNCHANGED other_vars

(* if args.skip_merged and args.skip_individual: sys.exit(1) *)
MainReject ==
  /\ pc = "main"
  /\ skip_merged /\ skip_individual
  /\ pc' = "exit"
  /\ UNCHANGED <<input_files, skip_merged, skip_individual, merged_output, dirs, i,
                 all_transactions, processed_count, failed_files, skipped, written,
                 report, last>>
  /\ UNCHANGED other_vars

(* main calls standardize_files, which starts with ensure_directory(output_dir) *)
MainRun ==
  /\ pc = "main"
  /\ ~(skip_merged /\ skip_individual)
  /\ pc' = "loop"
  /\ dirs' = dirs \cup {output_dir}
  /\ UNCHANGED <<input_files, skip_merged, skip_individual, merged_output, i,
                 all_transactions, processed_count, failed_files, skipped, written,
                 report, last>>
  /\ UNCHANGED other_vars

(* --------------------------- standardize_files ------------------------- *)
(* if not os.path.exists(file_path): continue *)
SkipMissing ==
  /\ pc = "loop" /\ i <= Len(input_files)
  /\ ~input_files[i].exists
  /\ skipped' = Append(skipped, [path |-> FilePath(input_files[i]), why |-> "file not found"])
  /\ i' = i + 1
  /\ UNCHANGED <<input_files, skip_merged, skip_individual, merged_output, pc, dirs,
                 all_transactions, processed_count, failed_files, written, report, last>>
  /\ UNCHANGED other_vars

(* if any(pattern in filename.lower() for pattern in skip_patterns): continue *)
SkipOutputFile ==
  /\ pc = "loop" /\ i <= Len(input_files)
  /\ input_files[i].exists
  /\ IsOutputFile(input_files[i])
  /\ skipped' = Append(skipped, [path |-> FilePath(input_files[i]),
                                 why |-> "processed/config file"])
  /\ i' = i + 1
  /\ UNCHANGED <<input_files, skip_merged, skip_individual, merged_output, pc, dirs,
                 all_transactions, processed_count, failed_files, written, report, last>>
  /\ UNCHANGED other_vars

(* a parsed file's records are collected but the file is not counted *)
Process_NotCounted ==
  /\ pc = "loop" /\ i <= Len(input_files)
  /\ input_files[i].exists
  /\ ~IsOutputFile(input_files[i])
  /\ \E d \in {detect_and_parse(input_files[i])} :
         /\ d.r.ok
         /\ last' = Call(i, d)
         /\ written' = IF skip_individual THEN written
                       ELSE Append(written, [path |-> OutputPath(input_files[i]),
                                             df |-> d.r.df])
         /\ all_transactions' = Append(all_transactions, d.r.df)
  /\ i' = i + 1
  /\ UNCHANGED <<input_files, skip_merged, skip_individual, merged_output, pc, dirs,
                 processed_count, failed_files, skipped, report>>
  /\ UNCHANGED other_vars

(* detect_and_parse returned: the individual output is written unless      *)
(* suppressed, the DataFrame joins all_transactions                        *)
Process ==
  /\ pc = "loop" /\ i <= Len(input_files)
  /\ input_files[i].exists
  /\ ~IsOutputFile(input_files[i])
  /\ \E d \in {detect_and_parse(input_files[i])} :
         /\ d.r.ok
         /\ last' = Call(i, d)
         /\ written' = IF skip_individual THEN written
                       ELSE Append(written, [path |-> OutputPath(input_files[i]),
                                             df |-> d.r.df])
         /\ all_transactions' = Append(all_transactions, d.r.df)
  /\ processed_count' = processed_count + 1
  /\ i' = i + 1
  /\ UNCHANGED <<input_files, skip_merged, skip_individual, merged_output, pc, dirs,
                 failed_files, skipped, report>>
  /\ UNCHANGED other_vars

(* the failure ends the loop *)
Fail_Abort ==
  /\ pc = "loop" /\ i <= Len(input_files)
  /\ input_files[i].exists
  /\ ~IsOutputFile(input_files[i])
  /\ \E d \in {detect_and_parse(input_files[i])} :
         /\ ~d.r.ok
         /\ last' = Call(i, d)
         /\ failed_files' = Append(failed_files,
                                   [path |-> FilePath(input_files[i]),
                                    error |-> d.r.err, names |-> d.errpath])
  /\ i' = Len(input_files) + 1
  /\ UNCHANGED <<input_files, skip_merged, skip_individual, merged_output, pc, dirs,
                 all_transactions, processed_count, skipped, written, report>>
  /\ UNCHANGED other_vars

(* except Exception as e: failed_files.append((file_path, str(e))) *)
Fail ==
  /\ pc = "loop" /\ i <= Len(input_files)
  /\ input_files[i].exists
  /\ ~IsOutputFile(input_files[i])
  /\ \E d \in {detect_and_parse(input_files[i])} :
         /\ ~d.r.ok
         /\ last' = Call(i, d)
         /\ failed_files' = Append(failed_files,
                                   [path |-> FilePath(input_files[i]),
                                    error |-> d.r.err, names |-> d.errpath])
  /\ i' = i + 1
  /\ UNCHANGED <<input_files, skip_merged, skip_individual, merged_output, pc, dirs,
                 all_transactions, processed_count, skipped, written, report>>
  /\ UNCHANGED other_vars

(* after the loop: the merged output and the summary when merging is asked *)
(* for and something was parsed, then the failed files, then COMPLETE      *)
Finish ==
  /\ pc = "loop" /\ i > Len(input_files)
  /\ pc' = "done"
  /\ IF ~skip_merged /\ Len(all_transactions) > 0
     THEN \E merged_df \in {SortByDate(ConcatFrames(all_transactions))} :
              /\ written' = Append(written, [path |-> merged_output, df |-> merged_df])
              /\ report' = [merged |-> TRUE,
                            processed |-> processed_count,
                            given |-> Len(input_files),
                            total |-> merged_df.n,
                            breakdown |-> ValueCounts(merged_df.data["source"]),
                            date_min |-> DateMin(merged_df.data["date"]),
                            date_max |-> DateMax(merged_df.data["date"]),
                            failed |-> failed_files,
                            complete |-> TRUE]
     ELSE /\ written' = written
          /\ report' = [NoReport EXCEPT !.failed = failed_files, !.complete = TRUE]
  /\ UNCHANGED <<input_files, skip_merged, skip_individual, merged_output, dirs, i,
                 all_transactions, processed_count, failed_files, skipped, last>>
  /\ UNCHANGED other_vars

Next ==
  \/ MainReject
  \/ MainRun
  \/ SkipMissing
  \/ SkipOutputFile
  \/ Process
  \/ Fail
  \/ Finish

Spec == Init /\ [][Next]_vars

SpecBatch == InitBatch /\ [][Next]_vars

(* ------------------------------ claims --------------------------------- *)
(* the file the latest detect_and_parse call was given *)
LastFile == input_files[last.i]

Accepts(a, f) == can_handle(a, DfSample(f), f)

FixedOrder ==
  <<"CitiAdapter", "BofAAdapter", "ChaseCreditAdapter", "ChaseCheckingAdapter",
    "SFCUAdapter">>

(* C1: detect_and_parse asks the adapters in the order Citi, BofA,         *)
(* ChaseCredit, ChaseChecking, SFCU and parses with the first one whose    *)
(* can_handle accepts the file: no adapter is used for a file that an      *)
(* adapter earlier in that order accepts.                                  *)
C1_FirstAcceptingAdapterParses ==
  last.i > 0 =>
    /\ last.probed = SubSeq(FixedOrder, 1, Len(last.probed))
    /\ \A k \in DOMAIN FixedOrder :
         /\ Accepts(FixedOrder[k], LastFile)
         /\ \A j \in 1..(k - 1) : ~Accepts(FixedOrder[j], LastFile)
         => last.parsed = <<FixedOrder[k]>> /\ Len(last.probed) = k

(* a file that a content-sniffing adapter and a header-set adapter both    *)
(* accept was parsed by the content-sniffing one                           *)
C1_Witness ==
  /\ last.i > 0
  /\ last.parsed = <<"CitiAdapter">>
  /\ Accepts("ChaseCreditAdapter", LastFile)

(* C2: when no adapter's can_handle accepts the file, detect_and_parse     *)
(* raises an error that names the file path and no adapter's parse is      *)
(* called: there is no default parser.                                     *)
C2_NoAdapterRaises ==
  (last.i > 0 /\ \A k \in DOMAIN FixedOrder : ~Accepts(FixedOrder[k], LastFile)) =>
    /\ ~last.ok
    /\ last.parsed = <<>>
    /\ last.err = "Could not detect bank format for"
    /\ last.errpath = FilePath(LastFile)
    /\ failed_files[Len(failed_files)].path = FilePath(LastFile)

C2_Witness ==
  /\ last.i > 0
  /\ \A k \in DOMAIN FixedOrder : ~Accepts(FixedOrder[k], LastFile)
  /\ Len(LastFile.lines) > 0

AdapterOf(bank) ==
  CASE bank = "Citi" -> "CitiAdapter"
    [] bank = "BofA" -> "BofAAdapter"
    [] bank = "ChaseCredit" -> "ChaseCreditAdapter"
    [] bank = "ChaseChecking" -> "ChaseCheckingAdapter"
    [] bank = "SFCU" -> "SFCUAdapter"
    [] OTHER -> ""

(* C3: the detector of a bank's format accepts every file of that format   *)
(* and the detectors of the other formats reject it: no file is accepted   *)
(* by two adapters.                                                        *)
C3_DetectorsExclusive ==
  (last.i > 0 /\ LastFile.bank # "none") =>
    \A k \in DOMAIN FixedOrder :
      Accepts(FixedOrder[k], LastFile) <=> FixedOrder[k] = AdapterOf(LastFile.bank)

Positive(cell) == cell.k \in {"num", "deco"} /\ cell.v > 0

Negative(cell) == cell.k \in {"num", "deco"} /\ cell.v < 0

IsSplit(f) == f.bank \in {"SFCU", "Citi"}

(* the source row stands for money leaving the account: an amount in the   *)
(* Debit column alone, or a negative signed amount                         *)
MoneyOut(f, j) ==
  IF IsSplit(f) THEN Positive(f.rows[j].debit) /\ f.rows[j].credit = Blank
  ELSE Negative(f.rows[j].amount)

(* money entering: an amount in the Credit column alone, or a positive     *)
(* signed amount                                                           *)
MoneyIn(f, j) ==
  IF IsSplit(f) THEN Positive(f.rows[j].credit) /\ f.rows[j].debit = Blank
  ELSE Positive(f.rows[j].amount)

(* a bank's export parsed by that bank's adapter *)
ParsedOwn ==
  /\ last.i > 0 /\ last.ok
  /\ LastFile.bank # "none"
  /\ last.adapter = AdapterOf(LastFile.bank)

(* C4: in every record a parser produces the sign of amount is the sign    *)
(* the source row means: a row of money leaving the account gives          *)
(* amount < 0 and a row of money entering gives amount > 0, with separate  *)
(* Debit/Credit columns (SFCU, Citi) and with a signed amount column       *)
(* (Chase, BofA) alike.                                                    *)
C4_AmountSign ==
  ParsedOwn =>
    /\ last.df.n = Len(LastFile.rows)
    /\ \A j \in 1..last.df.n :
         /\ MoneyOut(LastFile, j) => Negative(last.df.data["amount"][j])
         /\ MoneyIn(LastFile, j) => Positive(last.df.data["amount"][j])

C4_Witness ==
  /\ ParsedOwn
  /\ last.adapter = "CitiAdapter"
  /\ last.df.n = 2
  /\ MoneyOut(LastFile, 1) /\ LastFile.rows[1].debit.k = "deco"
  /\ MoneyIn(LastFile, 2)

Plain(cell) == cell.k \in {"blank", "num"}

(* C5: SFCU and Citi count an empty Debit or Credit cell as zero: the row  *)
(* gives a record whose amount is the filled column's value, credit        *)
(* positive and debit negative, and the empty cell raises no parse error.  *)
C5_BlankCellIsZero ==
  (last.i > 0 /\ IsSplit(LastFile) /\ last.adapter = AdapterOf(LastFile.bank)) =>
    /\ ( /\ \A j \in DOMAIN LastFile.rows : LastFile.rows[j].date.k \in {"date", "blank"}
         /\ LastFile.bank = "SFCU" =>
              \A j \in DOMAIN LastFile.rows :
                Plain(LastFile.rows[j].debit) /\ Plain(LastFile.rows[j].credit) )
       => last.ok /\ last.df.n = Len(LastFile.rows)
    /\ last.ok =>
         \A j \in 1..last.df.n :
           /\ (LastFile.rows[j].debit = Blank /\ LastFile.rows[j].credit.k = "num")
                => last.df.data["amount"][j] = Num(LastFile.rows[j].credit.v)
           /\ (LastFile.rows[j].credit = Blank /\ LastFile.rows[j].debit.k = "num")
                => last.df.data["amount"][j] = Num(0 - LastFile.rows[j].debit.v)
           /\ (LastFile.rows[j].credit = Blank /\ LastFile.rows[j].debit = Blank)
                => last.df.data["amount"][j] = Num(0)

C5_Witness ==
  /\ ParsedOwn
  /\ last.adapter = "SFCUAdapter"
  /\ last.df.n = 2
  /\ LastFile.rows[1].debit = Blank /\ LastFile.rows[1].credit.k = "num"
  /\ LastFile.rows[2].credit = Blank /\ LastFile.rows[2].debit.k = "num"

(* the YYYY-MM text of the months the model's dates fall in *)
MonthText(v) ==
  CASE v \div 100 = 202401 -> "2024-01"
    [] v \div 100 = 202312 -> "2023-12"
    [] v \div 100 = 197001 -> "1970-01"
    [] OTHER -> "?"

(* C6: in every record a parser produces, month is the YYYY-MM text of the *)
(* record's date and year is the date's year (both missing when the date   *)
(* is missing).                                                            *)
C6_MonthYearFromDate ==
  (last.i > 0 /\ last.ok) =>
    \A j \in 1..last.df.n :
      IF last.df.data["date"][j].k = "ts"
      THEN /\ last.df.data["month"][j] = Text(MonthText(last.df.data["date"][j].v))
           /\ last.df.data["year"][j] = Num(last.df.data["date"][j].v \div 10000)
      ELSE /\ last.df.data["month"][j] = Blank
           /\ last.df.data["year"][j] = Blank

C6_Witness ==
  /\ last.i > 0 /\ last.ok
  /\ last.df.n = 2
  /\ last.df.data["date"][1] = Ts(20231231) /\ last.df.data["month"][1] = Text("2023-12")
  /\ last.df.data["date"][2] = Ts(20240105) /\ last.df.data["year"][2] = Num(2024)

(* the name without its parts '.csv' and '.CSV' *)
RECURSIVE WithoutCsv(_)
WithoutCsv(name) ==
  IF Len(name) = 0 THEN ""
  ELSE (IF Head(name) \in {".csv", ".CSV"} THEN "" ELSE Head(name)) \o WithoutCsv(Tail(name))

(* the name without a final '.csv' or '.CSV' *)
WithoutExtension(name) ==
  IF Len(name) > 0 /\ name[Len(name)] \in {".csv", ".CSV"}
  THEN Concat(SubSeq(name, 1, Len(name) - 1))
  ELSE Concat(name)

(* C7 as stated: every record of a file carries the same source, the base  *)
(* filename with its .csv/.CSV extension removed.                          *)
C7_SourceIsNameWithoutExtension ==
  (last.i > 0 /\ last.ok) =>
    \A j \in 1..last.df.n :
      last.df.data["source"][j] = Text(WithoutExtension(LastFile.name))

(* C7 amended: every record of a file carries the same source, the base    *)
(* filename with every occurrence of '.csv' and of '.CSV' removed.         *)
C7_SourceIsNameWithoutCsv ==
  (last.i > 0 /\ last.ok) =>
    \A j \in 1..last.df.n :
      last.df.data["source"][j] = Text(WithoutCsv(LastFile.name))

C7_Witness ==
  /\ last.i > 0 /\ last.ok
  /\ last.df.n = 2
  /\ LastFile.name = <<"export", ".csv", ".bak", ".csv">>
  /\ last.df.data["source"][2] = Text("export.bak")

CanonicalColumns ==
  <<"date", "description", "amount", "type", "category", "source", "month", "year">>

(* C8: every record a parser returns has each of date, description,        *)
(* amount, type, category, source, month and year filled with a value      *)
(* that is not missing.                                                    *)
C8_NoPartialRecord ==
  (last.i > 0 /\ last.ok) =>
    \A c \in Range(CanonicalColumns) : \A j \in 1..last.df.n :
      last.df.data[c][j].k # "blank"

(* C9: every DataFrame a parser returns, every individual output and the   *)
(* merged output have exactly the columns date, description, amount, type, *)
(* category, source, month, year, in that order.                           *)
C9_CanonicalColumns ==
  /\ last.ok => last.df.cols = CanonicalColumns
  /\ \A k \in DOMAIN all_transactions : all_transactions[k].cols = CanonicalColumns
  /\ \A w \in DOMAIN written : written[w].df.cols = CanonicalColumns

C9_Witness ==
  /\ pc = "done"
  /\ Len(written) = 3
  /\ written[3].path = merged_output
  /\ written[3].df.n = 2
  /\ written[3].df.data["source"][1] # written[3].df.data["source"][2]

(* C10: a Chase checking file whose rows are shifted by one position       *)
(* against the header is parsed to each row's true date, description and   *)
(* amount, not misassigned and not failed.                                 *)
C10_ShiftRepaired ==
  ( /\ last.i > 0
    /\ LastFile.bank = "ChaseChecking" /\ LastFile.shifted
    /\ last.adapter = "ChaseCheckingAdapter"
    /\ \A j \in DOMAIN LastFile.rows :
         LastFile.rows[j].date.k = "date" /\ LastFile.rows[j].amount.k = "num" )
  => /\ last.ok
     /\ last.df.n = Len(LastFile.rows)
     /\ \A j \in 1..last.df.n :
          /\ last.df.data["date"][j] = Ts(LastFile.rows[j].date.v)
          /\ last.df.data["amount"][j] = LastFile.rows[j].amount
          /\ LastFile.rows[j].desc.k # "blank"
               => last.df.data["description"][j] = LastFile.rows[j].desc

(* the file is handed to the detector *)
Attempted(f) == f.exists /\ ~IsOutputFile(f)

(* detect_and_parse raises for the file *)
Raises(f) == Attempted(f) /\ ~detect_and_parse(f).r.ok

(* the input files before position n that satisfy P, in the order given *)
FilesBefore(n, P(_)) == SelectSeq(SubSeq(input_files, 1, n - 1), P)

(* the merged output, once written *)
MergedDf == written[Len(written)].df

(* C11: in standardize_files a file that fails detection or parsing does   *)
(* not stop the run: every file is reached, the failure list names exactly *)
(* the files that raised, in order and each with its error text, and the   *)
(* merged output holds records of files that did not fail only.            *)
C11_FailureDoesNotAbort ==
  /\ pc = "done" => i = Len(input_files) + 1
  /\ pc \in {"loop", "done"} =>
       /\ Len(skipped) + processed_count + Len(failed_files) = i - 1
       /\ Len(failed_files) = Len(FilesBefore(i, Raises))
       /\ \A k \in DOMAIN failed_files :
            /\ failed_files[k].path = FilePath(FilesBefore(i, Raises)[k])
            /\ failed_files[k].error = detect_and_parse(FilesBefore(i, Raises)[k]).r.err
            /\ failed_files[k].error # ""
  /\ report.complete => report.failed = failed_files
  /\ report.merged =>
       \A j \in 1..MergedDf.n :
         \E k \in DOMAIN input_files :
           /\ Attempted(input_files[k]) /\ ~Raises(input_files[k])
           /\ MergedDf.data["source"][j] = Text(SourceId(input_files[k]))

C11_Witness ==
  /\ pc = "done"
  /\ Len(input_files) = 2
  /\ Raises(input_files[1])
  /\ Len(failed_files) = 1
  /\ processed_count = 1
  /\ report.merged

Succeeds(f) == Attempted(f) /\ ~Raises(f)

(* record j of a DataFrame *)
Record(df, j) == [c \in Range(df.cols) |-> df.data[c][j]]

(* how many times the record occurs in the DataFrame *)
Occurs(rec, df) == Cardinality({j \in 1..df.n : Record(df, j) = rec})

RECURSIVE Sum(_)
Sum(numbers) == IF Len(numbers) = 0 THEN 0 ELSE Head(numbers) + Sum(Tail(numbers))

(* C13: when merging is asked for and a file was parsed, the merged output *)
(* is the concatenation of the records of the parsed files: as many rows   *)
(* as the files' records together, each record as often as the parsed      *)
(* files hold it, and no record of a failed or skipped file.               *)
C13_MergedIsConcatenation ==
  /\ (pc = "done" /\ ~skip_merged /\ processed_count > 0) =>
       report.merged /\ written[Len(written)].path = merged_output
  /\ pc \in {"loop", "done"} =>
       /\ Len(all_transactions) = Len(FilesBefore(i, Succeeds))
       /\ \A k \in DOMAIN all_transactions :
            all_transactions[k] = detect_and_parse(FilesBefore(i, Succeeds)[k]).r.df
  /\ report.merged =>
       /\ MergedDf.n = Sum([k \in DOMAIN all_transactions |-> all_transactions[k].n])
       /\ \A j \in 1..MergedDf.n :
            Occurs(Record(MergedDf, j), MergedDf)
              = Sum([k \in DOMAIN all_transactions |->
                       Occurs(Record(MergedDf, j), all_transactions[k])])
       /\ \A k \in DOMAIN all_transactions : \A j \in 1..all_transactions[k].n :
            Occurs(Record(all_transactions[k], j), MergedDf) > 0
       /\ \A k \in DOMAIN input_files : \A j \in 1..MergedDf.n :
            ~Succeeds(input_files[k]) =>
              MergedDf.data["source"][j] # Text(SourceId(input_files[k]))

C13_Witness ==
  /\ report.merged
  /\ Len(input_files) = 2
  /\ input_files[1] = input_files[2]
  /\ input_files[1].name = <<"citi_old", ".csv">>
  /\ MergedDf.n = 4
  /\ Occurs(Record(MergedDf, 1), MergedDf) = 2

(* the base names of the model's files whose lower-case form holds one of  *)
(* 'category_overrides', 'transactions_', 'reclassified_', '_standardized' *)
OutputNames == {"AR_SFCU_standardized.csv", "Transactions_merged.csv"}

ShouldSkip(f) == ~f.exists \/ Basename(f) \in OutputNames

(* C14: standardize_files skips a file exactly when it does not exist or   *)
(* its lower-cased base name holds a known output pattern; a skipped file  *)
(* is not detected, parsed, counted as processed or listed as failed, and  *)
(* every other file goes to the detector.                                  *)
C14_SkipsExactlyMissingAndOutputs ==
  pc \in {"loop", "done"} =>
    /\ Len(skipped) = Len(FilesBefore(i, ShouldSkip))
    /\ \A k \in DOMAIN skipped : skipped[k].path = FilePath(FilesBefore(i, ShouldSkip)[k])
    /\ processed_count + Len(failed_files)
         = Len(FilesBefore(i, LAMBDA f : ~ShouldSkip(f)))
    /\ \A k \in DOMAIN failed_files : \A n \in 1..(i - 1) :
         ShouldSkip(input_files[n]) => failed_files[k].path # FilePath(input_files[n])
    /\ last.i > 0 => ~ShouldSkip(LastFile)
    /\ (i > 1 /\ ~ShouldSkip(input_files[i - 1])) => last.i = i - 1

C14_Witness ==
  /\ pc = "done"
  /\ Basename(input_files[1]) = "Transactions_merged.csv"
  /\ Len(skipped) = 1
  /\ last.i = 0
  /\ processed_count = 0 /\ failed_files = <<>>

(* C15: with both --skip-merged and --skip-individual the run ends at      *)
(* startup with exit status 1: no input file is read, no directory made    *)
(* and no output written, before or after the exit.                        *)
C15_ConflictingFlagsRejected ==
  /\ (skip_merged /\ skip_individual) =>
       /\ pc \in {"main", "exit"}
       /\ dirs = {} /\ written = <<>>
       /\ i = 1 /\ last.i = 0
       /\ skipped = <<>> /\ failed_files = <<>> /\ all_transactions = <<>>
       /\ ~report.complete
  /\ pc = "exit" => skip_merged /\ skip_individual

C15_Witness == pc = "exit" /\ skip_merged /\ skip_individual /\ input_files[1].exists

(* C16: every run that reaches completion has reported the summary (files  *)
(* processed, total transactions, per-source breakdown, date range) and    *)
(* the failed files with their error text, whatever the output flags and   *)
(* however many files failed.                                              *)
C16_CompletionReportsSummary ==
  pc = "done" =>
    /\ report.complete
    /\ report.merged
    /\ report.processed = processed_count
    /\ report.given = Len(input_files)
    /\ report.failed = failed_files

(* the amount cells of source row j *)
AmountCells(f, j) ==
  IF IsSplit(f) THEN {f.rows[j].debit, f.rows[j].credit} ELSE {f.rows[j].amount}

(* a file whose dates and descriptions are in order *)
OtherwiseParseable(f) ==
  /\ f.bank \in {"ChaseCredit", "SFCU", "Citi", "BofA"} \/ (f.bank = "ChaseChecking" /\ f.shifted)
  /\ \A j \in DOMAIN f.rows : f.rows[j].date.k = "date" /\ f.rows[j].desc.k = "text"

(* C17: in every parser an amount that cannot be made a number becomes the *)
(* missing-value marker in its row: the row is kept, the file parses, and  *)
(* no failure of the whole file results.                                   *)
C17_UncoercibleAmountIsMissing ==
  ( /\ last.i > 0
    /\ last.adapter = AdapterOf(LastFile.bank)
    /\ OtherwiseParseable(LastFile) )
  => /\ last.ok
     /\ last.df.n = Len(LastFile.rows)
     /\ \A j \in 1..last.df.n :
          (\E cell \in AmountCells(LastFile, j) : cell.k = "text")
            => last.df.data["amount"][j] = Blank

(* C18: enriching again a record set the pipeline has enriched, with the   *)
(* same source identifier, changes nothing: date, month, year and source   *)
(* of every record, and the columns, stay as they are.                     *)
C18_EnrichmentIdempotent ==
  (last.i > 0 /\ last.ok) =>
    \E again \in {Enrich(last.df, SourceId(LastFile))} :
      /\ again.ok
      /\ again.df.cols = last.df.cols
      /\ again.df.n = last.df.n
      /\ \A c \in {"date", "month", "year", "source"} :
           again.df.data[c] = last.df.data[c]

C18_Witness ==
  /\ last.i > 0 /\ last.ok
  /\ last.df.n = 2
  /\ last.df.data["date"][1] = Ts(20240105)
  /\ last.df.data["month"][1] = Text("2024-01")
  /\ last.df.data["date"][2] = Blank
  /\ last.df.data["source"][2] = Text("Chase6559")

IsPrefixed(f) == f.bank \in {"Citi", "BofA"}

(* the position of the header line in a Citi or BofA file of the model:    *)
(* the data rows end the file, after BofA's opening balance row            *)
HeaderAt(f) == Len(f.lines) - Len(f.rows) - (IF f.bank = "BofA" THEN 1 ELSE 0)

(* the texts of the lines before the header *)
PrefaceTexts(f) ==
  UNION { {f.lines[p][q].s : q \in DOMAIN f.lines[p]} : p \in 1..(HeaderAt(f) - 1) } \ {""}

(* C19: Citi and BofA take the first line holding the bank's header marker *)
(* as header; the records are the rows after it and no line before it is   *)
(* a record, even one that reads as a row.                                 *)
C19_PrefaceExcluded ==
  (last.i > 0 /\ IsPrefixed(LastFile) /\ last.adapter = AdapterOf(LastFile.bank)) =>
    /\ HeaderAt(LastFile) > 1
    /\ (\A j \in DOMAIN LastFile.rows : LastFile.rows[j].date.k \in {"date", "blank"})
         => last.ok
    /\ last.ok =>
         /\ last.df.n = Len(LastFile.rows)
         /\ \A j \in 1..last.df.n :
              /\ last.df.data["date"][j] = ToDatetime(<<LastFile.rows[j].date>>)[1]
              /\ LastFile.rows[j].desc.k = "text"
                   => last.df.data["description"][j] = LastFile.rows[j].desc
              /\ last.df.data["description"][j].s \notin PrefaceTexts(LastFile)

C19_Witness ==
  /\ last.i > 0 /\ last.ok
  /\ LastFile.name = <<"citi_summary", ".csv">>
  /\ "PAYROLL" \in PrefaceTexts(LastFile)
  /\ last.df.n = 1
  /\ last.df.data["description"][1] = Text("COFFEE SHOP")

(* the position of the header line of a bank's export *)
HeaderLine(f) == IF IsPrefixed(f) THEN HeaderAt(f) ELSE 1

(* the lines after the header: the data rows *)
DataRows(f) == SubSeq(f.lines, HeaderLine(f) + 1, Len(f.lines))

(* a BofA data row whose Description holds 'Beginning balance' *)
IsBalanceRow(f, line) ==
  f.bank = "BofA" /\ line[2].k = "text" /\ Has(line[2].s, "Beginning balance")

(* a parse that raises hands nothing on *)
RaisesWhole ==
  ~last.ok => last.df.n = 0 /\ Len(all_transactions) = processed_count /\ last.err # ""

(* C20 as stated: when parse returns it has produced exactly one record    *)
(* for every data row after the header line, and otherwise it raises for   *)
(* the whole file.                                                         *)
C20_OneRecordPerDataRow ==
  (last.i > 0 /\ LastFile.bank # "none" /\ last.adapter = AdapterOf(LastFile.bank)) =>
    /\ last.ok => last.df.n = Len(DataRows(LastFile))
    /\ RaisesWhole

(* C20 amended: when parse returns it has produced exactly one record for  *)
(* every data row after the header line, except that BofA leaves out the   *)
(* rows whose Description holds 'Beginning balance'; otherwise it raises   *)
(* for the whole file.                                                     *)
C20_OneRecordPerRowButBalance ==
  (last.i > 0 /\ LastFile.bank # "none" /\ last.adapter = AdapterOf(LastFile.bank)) =>
    /\ last.ok =>
         /\ last.df.n
              = Len(SelectSeq(DataRows(LastFile), LAMBDA line : ~IsBalanceRow(LastFile, line)))
         /\ last.df.n = Len(LastFile.rows)
         /\ LastFile.bank # "BofA" => last.df.n = Len(DataRows(LastFile))
    /\ RaisesWhole

C20_Witness ==
  /\ last.i > 0 /\ last.ok
  /\ LastFile.bank = "BofA"
  /\ Len(DataRows(LastFile)) = 3
  /\ last.df.n = 2
  /\ LastFile.rows[2].desc = Blank

(* ================= agent/subagents/nl2sql/tools.py ===================== *)
(* Texts are sequences of one-character strings.                           *)
MaxTokens == 3

LowerCase == <<"a", "b", "c", "d", "e", "f", "g", "h", "i", "j", "k", "l", "m", "n", "o", "p", "q", "r", "s", "t", "u", "v", "w", "x", "y", "z">>

UpperCase == <<"A", "B", "C", "D", "E", "F", "G", "H", "I", "J", "K", "L", "M", "N", "O", "P", "Q", "R", "S", "T", "U", "V", "W", "X", "Y", "Z">>

(* str.upper() *)
upper(text) ==
  [k \in DOMAIN text |->
     IF \E n \in DOMAIN LowerCase : LowerCase[n] = text[k]
     THEN UpperCase[CHOOSE n \in DOMAIN LowerCase : LowerCase[n] = text[k]]
     ELSE text[k]]

Whitespace == {" ", "\n", "\t"}

(* str.strip() *)
strip(text) ==
  IF \A k \in DOMAIN text : text[k] \in Whitespace THEN <<>>
  ELSE SubSeq(text,
              CHOOSE a \in DOMAIN text :
                text[a] \notin Whitespace /\ \A k \in 1..(a - 1) : text[k] \in Whitespace,
              CHOOSE b \in DOMAIN text :
                text[b] \notin Whitespace /\ \A k \in (b + 1)..Len(text) : text[k] \in Whitespace)

(* str.startswith(prefix) *)
startswith(text, prefix) ==
  Len(text) >= Len(prefix) /\ SubSeq(text, 1, Len(prefix)) = prefix

(* keyword in text *)
In(keyword, text) ==
  \E k \in 0..(Len(text) - Len(keyword)) : SubSeq(text, k + 1, k + Len(keyword)) = keyword

FORBIDDEN_SQL_KEYWORDS ==
  << <<"I", "N", "S", "E", "R", "T">>,
     <<"U", "P", "D", "A", "T", "E">>,
     <<"D", "E", "L", "E", "T", "E">>,
     <<"D", "R", "O", "P">>,
     <<"A", "L", "T", "E", "R">>,
     <<"C", "R", "E", "A", "T", "E">>,
     <<"T", "R", "U", "N", "C", "A", "T", "E">>,
     <<"C", "O", "P", "Y">>,
     <<"A", "T", "T", "A", "C", "H">>,
     <<"D", "E", "T", "A", "C", "H">>,
     <<"P", "R", "A", "G", "M", "A">>,
     <<"V", "A", "C", "U", "U", "M">>,
     <<"G", "R", "A", "N", "T">>,
     <<"R", "E", "V", "O", "K", "E">> >>

(* only the start of the query is looked at *)
is_safe_sql_StartOnly(sql) ==
  \/ startswith(strip(upper(sql)), <<"S", "E", "L", "E", "C", "T">>)
  \/ startswith(strip(upper(sql)), <<"W", "I", "T", "H">>)

is_safe_sql(sql) ==
  /\ \/ startswith(strip(upper(sql)), <<"S", "E", "L", "E", "C", "T">>)
     \/ startswith(strip(upper(sql)), <<"W", "I", "T", "H">>)
  /\ ~\E n \in DOMAIN FORBIDDEN_SQL_KEYWORDS :
        In(FORBIDDEN_SQL_KEYWORDS[n], strip(upper(sql)))

UnsafeSqlMessage == "UNSAFE SQL DETECTED: Only SELECT queries are allowed."

(* what execute_sql_tool returns after con.sql ran: the table as Markdown, *)
(* the no-data sentence, or the text of the exception DuckDB raised        *)
ExecutedReturns ==
  {"<markdown table>", "Query executed successfully but returned no data.", "SQL Error: <text>"}

(* the pieces the queries of the model are written with *)
SqlTokens ==
  { <<" ">>,
    <<"s", "e", "l", "e", "c", "t">>,
    <<"S", "E", "L", "E", "C", "T">>,
    <<"W", "i", "t", "h">>,
    <<"x">>,
    <<"D", "R", "O", "P">>,
    <<"d", "r">>,
    <<"o", "p">>,
    <<"c", "r", "e", "a", "t", "e", "d">>,
    <<"I", "n", "s", "e", "r", "t">> }

RECURSIVE Flatten(_)
Flatten(pieces) == IF Len(pieces) = 0 THEN <<>> ELSE Head(pieces) \o Flatten(Tail(pieces))

SqlQueries == {Flatten(q) : q \in UNION {[1..n -> SqlTokens] : n \in 0..MaxTokens}}

(* standardize_csv.py is not running *)
PipelineOff ==
  /\ input_files = <<>>
  /\ skip_merged = FALSE /\ skip_individual = FALSE
  /\ merged_output = DefaultMerged
  /\ pc = "off"
  /\ dirs = {} /\ i = 1
  /\ all_transactions = <<>> /\ processed_count = 0
  /\ failed_files = <<>> /\ skipped = <<>> /\ written = <<>>
  /\ report = NoReport /\ last = NoCall

InitSql ==
  /\ PipelineOff
  /\ sql_query \in SqlQueries
  /\ executed = <<>>
  /\ sql_return = ""
  /\ SchemaIdle /\ ClassifyIdle /\ EvalIdle

(* if not is_safe_sql(sql_clean): return the unsafe-SQL message *)
RejectSql ==
  /\ sql_return = ""
  /\ ~is_safe_sql(strip(sql_query))
  /\ sql_return' = UnsafeSqlMessage
  /\ UNCHANGED <<pipeline_vars, sql_query, executed, schema_vars, classify_vars, eval_vars>>

(* df = con.sql(sql_clean).df(), then the table, the no-data sentence or,  *)
(* when DuckDB raised, the error text                                      *)
ExecuteSql ==
  /\ sql_return = ""
  /\ is_safe_sql(strip(sql_query))
  /\ executed' = Append(executed, strip(sql_query))
  /\ sql_return' \in ExecutedReturns
  /\ UNCHANGED <<pipeline_vars, sql_query, schema_vars, classify_vars, eval_vars>>

NextSql == RejectSql \/ ExecuteSql

SpecSql == InitSql /\ [][NextSql]_vars

(* the word occurs in the text: the text is some lead, the word, some rest *)
OccursIn(word, text) ==
  \E lead \in 0..Len(text) :
    /\ lead + Len(word) <= Len(text)
    /\ \A k \in DOMAIN word : text[lead + k] = word[k]

(* the query, trimmed and upper-cased, starts with SELECT or WITH and      *)
(* holds no forbidden keyword                                              *)
ReadOnlyQuery(q) ==
  /\ \/ startswith(strip(upper(q)), <<"S", "E", "L", "E", "C", "T">>)
     \/ startswith(strip(upper(q)), <<"W", "I", "T", "H">>)
  /\ \A n \in DOMAIN FORBIDDEN_SQL_KEYWORDS :
       ~OccursIn(FORBIDDEN_SQL_KEYWORDS[n], upper(q))

(* C21: execute_sql_tool runs a query on the database only if, trimmed and *)
(* upper-cased, it starts with SELECT or WITH and holds none of the        *)
(* forbidden keywords; any other query gets the unsafe-SQL message and is  *)
(* not run; the tool returns a string in every case.                       *)
C21_OnlyReadOnlySqlExecuted ==
  /\ Len(executed) <= 1
  /\ executed # <<>> => ReadOnlyQuery(sql_query) /\ executed = <<strip(sql_query)>>
  /\ sql_return # "" =>
       IF ReadOnlyQuery(sql_query)
       THEN executed # <<>> /\ sql_return \in ExecutedReturns
       ELSE executed = <<>> /\ sql_return = UnsafeSqlMessage

C21_Witness ==
  /\ sql_query = <<"s", "e", "l", "e", "c", "t">> \o <<"d", "r">> \o <<"o", "p">>
  /\ sql_return = UnsafeSqlMessage
  /\ executed = <<>>

(* ================== extract_schema_from_dataframe ====================== *)
MaxCols == 2

(* str(dtype) of the columns a DataFrame can have *)
Dtypes ==
  {"object", "int64", "int32", "float64", "float32", "bool", "datetime64[ns]",
   "datetime64[ns, UTC]", "int16", "category"}

(* 'datetime' in str(dtype) *)
HasDatetime(dtype) == dtype \in {"datetime64[ns]", "datetime64[ns, UTC]"}

(* df.columns: the columns are named by position *)
ColumnName(k) == "c" \o ToString(k)

(* the lines a copy returns, joined by newlines: the opening line, one     *)
(* line per column ending in a comma except the last, the closing line     *)
SchemaText(table_name, types) ==
  <<"CREATE TABLE " \o table_name \o " (">>
  \o [k \in DOMAIN types |->
        "    " \o ColumnName(k) \o " " \o types[k] \o (IF k = Len(types) THEN "" ELSE ",")]
  \o <<")">>

(* agent/subagents/nl2sql/tools.py *)
extract_schema_from_dataframe(dtypes, table_name) ==
  SchemaText(table_name,
             [k \in DOMAIN dtypes |->
                IF dtypes[k] = "object" THEN "VARCHAR"
                ELSE IF dtypes[k] \in {"int64", "int32"} THEN "INTEGER"
                ELSE IF dtypes[k] \in {"float64", "float32"} THEN "FLOAT"
                ELSE IF dtypes[k] = "bool" THEN "BOOLEAN"
                ELSE IF HasDatetime(dtypes[k]) THEN "TIMESTAMP"
                ELSE "VARCHAR"])

(* agent/tools.py *)
agent_extract_schema_from_dataframe(dtypes, table_name) ==
  SchemaText(table_name,
             [k \in DOMAIN dtypes |->
                IF dtypes[k] = "object" THEN "VARCHAR"
                ELSE IF dtypes[k] \in {"int64", "int32"} THEN "INTEGER"
                ELSE IF dtypes[k] \in {"float64", "float32"} THEN "FLOAT"
                ELSE IF dtypes[k] = "bool" THEN "BOOLEAN"
                ELSE IF HasDatetime(dtypes[k]) THEN "TIMESTAMP"
                ELSE "VARCHAR"])

InitSchema ==
  /\ PipelineOff /\ SqlIdle /\ ClassifyIdle /\ EvalIdle
  /\ df_dtypes \in UNION {[1..n -> Dtypes] : n \in 0..MaxCols}
  /\ schemas = NoSchema

(* both copies are called with the DataFrame and the default table name *)
ExtractSchema ==
  /\ schemas = NoSchema
  /\ schemas' = [nl2sql |-> extract_schema_from_dataframe(df_dtypes, "my_df"),
                 agent |-> agent_extract_schema_from_dataframe(df_dtypes, "my_df")]
  /\ UNCHANGED <<pipeline_vars, sql_vars, df_dtypes, classify_vars, eval_vars>>

NextSchema == ExtractSchema

SpecSchema == InitSchema /\ [][NextSchema]_vars

(* what kind of values a column of the dtype holds *)
KindOf(dtype) ==
  CASE dtype = "object" -> "text"
    [] dtype \in {"int64", "int32", "int16"} -> "integer"
    [] dtype \in {"float64", "float32"} -> "floating point"
    [] dtype = "bool" -> "boolean"
    [] dtype \in {"datetime64[ns]", "datetime64[ns, UTC]"} -> "datetime"
    [] OTHER -> "other"

PolicyType(kind) ==
  CASE kind = "integer" -> "INTEGER"
    [] kind = "floating point" -> "FLOAT"
    [] kind = "boolean" -> "BOOLEAN"
    [] kind = "datetime" -> "TIMESTAMP"
    [] OTHER -> "VARCHAR"

(* C22: extract_schema_from_dataframe gives each column the type of the    *)
(* policy text->VARCHAR, integer->INTEGER, floating point->FLOAT,          *)
(* boolean->BOOLEAN, datetime->TIMESTAMP, other->VARCHAR, with one line    *)
(* per column in column order, and both copies return the same schema.     *)
C22_SchemaFollowsPolicy ==
  schemas # NoSchema =>
    /\ schemas.nl2sql = schemas.agent
    /\ Len(schemas.nl2sql) = Len(df_dtypes) + 2
    /\ \A k \in DOMAIN df_dtypes :
         schemas.nl2sql[k + 1]
           = "    " \o ColumnName(k) \o " " \o PolicyType(KindOf(df_dtypes[k]))
               \o (IF k = Len(df_dtypes) THEN "" ELSE ",")

(* C23: standardize_files handles the files one at a time in input order,  *)
(* each once and with one outcome, skipped, processed or failed: after k   *)
(* files processed_count + failed entries + skipped files = k, and the     *)
(* per-file results collected are processed_count many.                    *)
C23_OneOutcomePerFile ==
  pc \in {"loop", "done"} =>
    /\ i \in 1..(Len(input_files) + 1)
    /\ processed_count + Len(failed_files) + Len(skipped) = i - 1
    /\ Len(all_transactions) = processed_count
    /\ last.i < i
    /\ (last.i > 0 /\ last.ok) => all_transactions[processed_count] = last.df
    /\ (last.i > 0 /\ ~last.ok) =>
         failed_files[Len(failed_files)].path = FilePath(input_files[last.i])
    /\ \A a \in DOMAIN skipped : \A b \in DOMAIN failed_files :
         skipped[a].path # failed_files[b].path
    /\ pc = "done" => i = Len(input_files) + 1

C23_Witness ==
  /\ pc = "done"
  /\ Len(input_files) = 2
  /\ Len(skipped) = 1 /\ skipped[1].path = FilePath(input_files[1])
  /\ processed_count = 1 /\ Len(failed_files) = 0

(* C24: in every record of the SFCU, Citi and BofA parsers the type label  *)
(* follows the sign of amount: 'Credit' exactly when amount > 0, 'Debit'   *)
(* otherwise, also for rows with both Debit and Credit filled and for a    *)
(* zero or missing amount.                                                 *)
C24_TypeFollowsAmountSign ==
  (ParsedOwn /\ LastFile.bank \in {"SFCU", "Citi", "BofA"}) =>
    \A j \in 1..last.df.n :
      last.df.data["type"][j]
        = (IF Positive(last.df.data["amount"][j]) THEN Text("Credit") ELSE Text("Debit"))

(* C25: a Chase checking file without the column shift ('Posting Date'     *)
(* holds date text, 'Details' holds CREDIT/DEBIT) is parsed with the       *)
(* normal mapping: date from 'Posting Date', description from              *)
(* 'Description', amount from 'Amount', type from 'Details', category from *)
(* 'Type'; the remap of the shifted layout is not applied to it.           *)
C25_WellFormedUsesNormalMapping ==
  ( /\ last.i > 0
    /\ LastFile.bank = "ChaseChecking" /\ ~LastFile.shifted
    /\ last.adapter = "ChaseCheckingAdapter"
    /\ \A j \in DOMAIN LastFile.rows :
         LastFile.rows[j].date.k = "date" /\ LastFile.rows[j].amount.k = "num" )
  => /\ last.ok
     /\ last.df.n = Len(LastFile.rows)
     /\ \A j \in 1..last.df.n :
          /\ last.df.data["date"][j] = Ts(LastFile.rows[j].date.v)
          /\ last.df.data["amount"][j] = LastFile.rows[j].amount
          /\ LastFile.rows[j].desc.k # "blank"
               => last.df.data["description"][j] = LastFile.rows[j].desc
          /\ last.df.data["type"][j] = Text("DEBIT")
          /\ last.df.data["category"][j] = Text("ACH_DEBIT")

(* the parts of Path(filename).stem *)
StemParts(f) ==
  IF Len(f.name) > 1 /\ IsSuffix(f.name[Len(f.name)])
  THEN SubSeq(f.name, 1, Len(f.name) - 1)
  ELSE f.name

(* the base names a run can write: f"{stem}_standardized.csv" of an input  *)
(* file and the base name of the --merged-output path                      *)
WrittenNames ==
  {StemParts(input_files[k]) \o <<"_standardized", ".csv">> : k \in DOMAIN input_files}
  \cup {<<"transactions_", "merged", ".csv">>, <<"all_transactions", ".csv">>}

(* os.path.basename of a written path, in parts *)
WrittenName(path) ==
  CHOOSE n \in WrittenNames :
    \E d \in {"", "data/", output_dir \o "/"} : path = d \o Concat(n)

(* C26: every file a run writes, the individual <stem>_standardized.csv    *)
(* files and the merged output at whatever --merged-output path, has a     *)
(* base name that matches a skip pattern, so a later run skips it.         *)
C26_OutputsMatchSkipPatterns ==
  \A k \in DOMAIN written : IsOutputFile([name |-> WrittenName(written[k].path)])

(* the files parsed so far, in the order of all_transactions *)
ParsedFiles == FilesBefore(i, Succeeds)

(* C27: two different input files that are both parsed in one run get      *)
(* different source identifiers, so no record of one carries the source of *)
(* a record of the other.                                                  *)
C27_SourcesDistinguishFiles ==
  pc \in {"loop", "done"} =>
    \A a, b \in DOMAIN all_transactions :
      FilePath(ParsedFiles[a]) # FilePath(ParsedFiles[b]) =>
        \A j \in 1..all_transactions[a].n : \A k \in 1..all_transactions[b].n :
          all_transactions[a].data["source"][j] # all_transactions[b].data["source"][k]

(* C28: two different input paths that both parse in one run are written   *)
(* to two different individual output paths, so no individual output is    *)
(* overwritten by another file's.                                          *)
C28_IndividualOutputsDistinct ==
  (pc \in {"loop", "done"} /\ ~skip_individual) =>
    \A a, b \in 1..processed_count :
      FilePath(ParsedFiles[a]) # FilePath(ParsedFiles[b]) =>
        written[a].path # written[b].path

(* ----------------------- classify_by_merchant.py ----------------------- *)
MaxTxns == 3

MaxBatch == 2

(* an empty description cell: read_csv gives NaN *)
NoDescription == "<NaN>"

Merchants == {"COFFEE SHOP", "RENT", "SHELL OIL"}

(* df.groupby('description'): one group per description, the rows with a   *)
(* missing description in none (dropna=True)                               *)
GroupKeys(col) == {col[k] : k \in DOMAIN col} \ {NoDescription}

(* the 'count' aggregate of a group *)
GroupCount(col, m) == Cardinality({k \in DOMAIN col : col[k] = m})

(* merchant_stats.sort_values('count', ascending=False): most frequent     *)
(* first; the default sort kind leaves the order of equal counts open      *)
SortedStats(col) ==
  { [k \in DOMAIN o |-> [description |-> o[k], count |-> GroupCount(col, o[k])]] :
      o \in { p \in [1..Cardinality(GroupKeys(col)) -> GroupKeys(col)] :
                /\ \A a, b \in DOMAIN p : a # b => p[a] # p[b]
                /\ \A a, b \in DOMAIN p :
                     a < b => GroupCount(col, p[a]) >= GroupCount(col, p[b]) } }

(* num_batches = (total_merchants + batch_size - 1) // batch_size *)
num_batches == (Len(merchant_stats) + batch_size - 1) \div batch_size

(* merchant_stats.iloc[start_idx:end_idx] of batch n, counted from 0 *)
batch_merchants(n) ==
  SubSeq(merchant_stats, n * batch_size + 1,
         Min(n * batch_size + batch_size, Len(merchant_stats)))

(* what classify_merchants_batch can return: the parsed JSON reply of the  *)
(* model, a list of objects that may be shorter than the batch and whose   *)
(* objects may lack the 'category' key                                     *)
Classifications ==
  {[category |-> c, confidence |-> "high"] : c \in {"Dining", "Groceries"}}
  \cup {[confidence |-> "high"]}

Replies(batch) == UNION {[1..n -> Classifications] : n \in 0..Len(batch)}

(* the exceptions classify_merchants_batch can raise *)
ClassifierErrors == {"rate_limit_error", "Expecting value: line 1 column 1 (char 0)"}

(* zip(batch_merchants, classifications) *)
Zipped(batch, reply) == 1..Min(Len(batch), Len(reply))

(* classification['category'] raises KeyError for a pair *)
StoreRaises(batch, reply) ==
  \E j \in Zipped(batch, reply) : "category" \notin DOMAIN reply[j]

ClassifiedEntry(classification, merchant_info) ==
  [ai_category |-> classification.category,
   confidence |-> classification.confidence,
   reasoning |-> "",
   transaction_count |-> merchant_info.count]

ErrorEntry(e, count) ==
  [ai_category |-> "ERROR", confidence |-> "low", reasoning |-> e,
   transaction_count |-> count]

(* for merchant_info, classification in zip(...): merchant_categories[...] = {...} *)
StoreResults(entries, batch, reply) ==
  [m \in DOMAIN entries \cup {batch[j].description : j \in Zipped(batch, reply)} |->
     IF \E j \in Zipped(batch, reply) : batch[j].description = m
     THEN ClassifiedEntry(reply[CHOOSE j \in Zipped(batch, reply) : batch[j].description = m],
                          batch[CHOOSE j \in Zipped(batch, reply) : batch[j].description = m])
     ELSE entries[m]]

(* for merchant_info in batch_merchants: merchant_categories[...] = the error entry *)
StoreErrors(entries, batch, e) ==
  [m \in DOMAIN entries \cup {batch[j].description : j \in DOMAIN batch} |->
     IF \E j \in DOMAIN batch : batch[j].description = m
     THEN ErrorEntry(e, batch[CHOOSE j \in DOMAIN batch : batch[j].description = m].count)
     ELSE entries[m]]

(* merchant_categories.get(merchant, {... 'reasoning': 'Merchant not found' ...}) *)
GetEntry(entries, merchant) ==
  IF merchant \in DOMAIN entries THEN entries[merchant]
  ELSE ErrorEntry("Merchant not found", 0)

InitClassify ==
  /\ PipelineOff /\ SqlIdle /\ SchemaIdle /\ EvalIdle
  /\ descriptions \in UNION {[1..n -> Merchants \cup {NoDescription}] : n \in 0..MaxTxns}
  /\ batch_size \in 1..MaxBatch
  /\ cls_pc = "start"
  /\ merchant_stats = <<>> /\ batch_num = 0 /\ batch_calls = <<>>
  /\ merchant_categories = NoEntries /\ results = <<>>

(* df = pd.read_csv(csv_path) ... merchant_stats sorted by count *)
GroupMerchants ==
  /\ cls_pc = "start"
  /\ merchant_stats' \in SortedStats(descriptions)
  /\ cls_pc' = "batches"
  /\ UNCHANGED <<descriptions, batch_size, batch_num, batch_calls, merchant_categories,
                 results>>
  /\ UNCHANGED <<pipeline_vars, sql_vars, schema_vars, eval_vars>>

(* a batch whose call returns and whose results are all stored *)
BatchClassified ==
  /\ cls_pc = "batches" /\ batch_num < num_batches
  /\ \E reply \in Replies(batch_merchants(batch_num)) :
       /\ ~StoreRaises(batch_merchants(batch_num), reply)
       /\ merchant_categories'
            = StoreResults(merchant_categories, batch_merchants(batch_num), reply)
       /\ batch_calls' = Append(batch_calls,
                                [batch |-> batch_merchants(batch_num), raised |-> FALSE,
                                 reply |-> reply, error |-> ""])
  /\ batch_num' = batch_num + 1
  /\ UNCHANGED <<descriptions, batch_size, cls_pc, merchant_stats, results>>
  /\ UNCHANGED <<pipeline_vars, sql_vars, schema_vars, eval_vars>>

(* except Exception as e: the call raised, or storing a result raised      *)
(* KeyError; every merchant of the batch gets the error entry              *)
BatchFailed ==
  /\ cls_pc = "batches" /\ batch_num < num_batches
  /\ \/ \E e \in ClassifierErrors :
          /\ merchant_categories'
               = StoreErrors(merchant_categories, batch_merchants(batch_num), e)
          /\ batch_calls' = Append(batch_calls,
                                   [batch |-> batch_merchants(batch_num), raised |-> TRUE,
                                    reply |-> <<>>, error |-> e])
     \/ \E reply \in Replies(batch_merchants(batch_num)) :
          /\ StoreRaises(batch_merchants(batch_num), reply)
          /\ merchant_categories'
               = StoreErrors(merchant_categories, batch_merchants(batch_num), "'category'")
          /\ batch_calls' = Append(batch_calls,
                                   [batch |-> batch_merchants(batch_num), raised |-> FALSE,
                                    reply |-> reply, error |-> "'category'"])
  /\ batch_num' = batch_num + 1
  /\ UNCHANGED <<descriptions, batch_size, cls_pc, merchant_stats, results>>
  /\ UNCHANGED <<pipeline_vars, sql_vars, schema_vars, eval_vars>>

(* for _, row in df.iterrows(): results.append({...}) *)
ApplyCategories ==
  /\ cls_pc = "batches" /\ batch_num = num_batches
  /\ results' = [k \in DOMAIN descriptions |->
                   [description |-> descriptions[k],
                    ai_category |-> GetEntry(merchant_categories, descriptions[k]).ai_category,
                    reasoning |-> GetEntry(merchant_categories, descriptions[k]).reasoning]]
  /\ cls_pc' = "done"
  /\ UNCHANGED <<descriptions, batch_size, merchant_stats, batch_num, batch_calls,
                 merchant_categories>>
  /\ UNCHANGED <<pipeline_vars, sql_vars, schema_vars, eval_vars>>

NextClassify == GroupMerchants \/ BatchClassified \/ BatchFailed \/ ApplyCategories

SpecClassify == InitClassify /\ [][NextClassify]_vars

(* the unique merchant descriptions of the CSV *)
UniqueMerchants == {descriptions[k] : k \in DOMAIN descriptions} \ {NoDescription}

(* the descriptions of a call's batch *)
BatchOf(call) == {call.batch[j].description : j \in DOMAIN call.batch}

(* the batches of the calls partition the unique merchants *)
BatchesPartition ==
  /\ UNION {BatchOf(batch_calls[c]) : c \in DOMAIN batch_calls} = UniqueMerchants
  /\ \A c, d \in DOMAIN batch_calls :
       c # d => BatchOf(batch_calls[c]) \cap BatchOf(batch_calls[d]) = {}

(* the merchant's entry is what its batch call gave: the classifier's      *)
(* result for it, or the error entry with the exception text               *)
EntryFromCall(call, j) ==
  /\ call.batch[j].description \in DOMAIN merchant_categories
  /\ IF call.raised
     THEN merchant_categories[call.batch[j].description]
            = ErrorEntry(call.error, call.batch[j].count)
     ELSE /\ j <= Len(call.reply)
          /\ "category" \in DOMAIN call.reply[j]
          /\ merchant_categories[call.batch[j].description].ai_category
               = call.reply[j].category

(* C29: in process_transactions_by_merchant the batches partition the      *)
(* unique merchants; after the batch loop every unique merchant has one    *)
(* entry, the classifier's result when its batch call succeeded and an     *)
(* 'ERROR' entry with the exception text when it raised, whatever happened *)
(* to other batches; no output row has the 'Merchant not found' fallback.  *)
C29_EveryMerchantClassifiedOnce ==
  cls_pc = "done" =>
    /\ batch_num = num_batches /\ Len(batch_calls) = num_batches
    /\ BatchesPartition
    /\ DOMAIN merchant_categories = UniqueMerchants
    /\ \A c \in DOMAIN batch_calls : \A j \in DOMAIN batch_calls[c].batch :
         EntryFromCall(batch_calls[c], j)
    /\ \A k \in DOMAIN results : results[k].reasoning # "Merchant not found"

(* ------------------------- evals/run_evals.py -------------------------- *)
MAX_RETRIES == 3

INITIAL_RETRY_DELAY == 10

(* str.lower() *)
lower(text) ==
  [k \in DOMAIN text |->
     IF \E n \in DOMAIN UpperCase : UpperCase[n] = text[k]
     THEN LowerCase[CHOOSE n \in DOMAIN UpperCase : UpperCase[n] = text[k]]
     ELSE text[k]]

(* the exception texts of the model *)
ErrorTexts ==
  { <<"4", "2", "9">>,
    <<"r", "a", "t", "e">>,
    <<"R", "a", "t", "e">>,
    <<"R", "A", "T", "E">>,
    <<"b", "u", "s", "y">> }

(* the text parts of the final response *)
TextParts == { <<>>, << <<"o", "k">> >>, << <<"4", "2">>, <<"U", "S", "D">> >> }

(* " ".join(text_parts) *)
RECURSIVE Join(_)
Join(parts) ==
  IF Len(parts) = 0 THEN <<>>
  ELSE IF Len(parts) = 1 THEN parts[1]
  ELSE parts[1] \o <<" ">> \o Join(Tail(parts))

NoResponseMessage ==
  <<"N", "o", " ", "r", "e", "s", "p", "o", "n", "s", "e", " ", "f", "r",
    "o", "m", " ", "a", "g", "e", "n", "t">>

ErrorPrefix == <<"E", "R", "R", "O", "R", ":", " ">>

MaxRetriesMessage ==
  <<"E", "R", "R", "O", "R", ":", " ", "M", "a", "x", " ", "r", "e", "t",
    "r", "i", "e", "s", " ", "e", "x", "c", "e", "e", "d", "e", "d", " ",
    "d", "u", "e", " ", "t", "o", " ", "r", "a", "t", "e", " ", "l", "i",
    "m", "i", "t", "i", "n", "g">>

(* the lower-case word looked for in the text as raised *)
IsRateLimit_CaseSensitive(error_str) ==
  \/ In(<<"4", "2", "9">>, error_str)
  \/ In(<<"r", "a", "t", "e">>, error_str)

(* "429" in error_str or "rate" in error_str.lower() *)
IsRateLimit(error_str) ==
  \/ In(<<"4", "2", "9">>, error_str)
  \/ In(<<"r", "a", "t", "e">>, lower(error_str))

InitEval ==
  /\ PipelineOff /\ SqlIdle /\ SchemaIdle /\ ClassifyIdle
  /\ attempt = 0 /\ outcomes = <<>> /\ slept = <<>>
  /\ eval_pc = "running" /\ run_return = <<>>

(* the agent run ends: return " ".join(text_parts) if text_parts else "No response from agent" *)
AttemptAnswers ==
  /\ eval_pc = "running" /\ attempt < MAX_RETRIES
  /\ \E text_parts \in TextParts :
       /\ run_return' = (IF Len(text_parts) > 0 THEN Join(text_parts) ELSE NoResponseMessage)
       /\ outcomes' = Append(outcomes, [raised |-> FALSE, text |-> Join(text_parts)])
  /\ eval_pc' = "returned"
  /\ UNCHANGED <<attempt, slept>>
  /\ UNCHANGED <<pipeline_vars, sql_vars, schema_vars, classify_vars>>

(* except Exception as e, rate limited: sleep retry_delay, continue *)
AttemptRateLimited ==
  /\ eval_pc = "running" /\ attempt < MAX_RETRIES
  /\ \E error_str \in ErrorTexts :
       /\ IsRateLimit(error_str)
       /\ outcomes' = Append(outcomes, [raised |-> TRUE, text |-> error_str])
  /\ slept' = Append(slept, INITIAL_RETRY_DELAY * (2 ^ attempt))
  /\ attempt' = attempt + 1
  /\ UNCHANGED <<eval_pc, run_return>>
  /\ UNCHANGED <<pipeline_vars, sql_vars, schema_vars, classify_vars>>

(* except Exception as e, anything else: return f"ERROR: {error_str}" *)
AttemptFails ==
  /\ eval_pc = "running" /\ attempt < MAX_RETRIES
  /\ \E error_str \in ErrorTexts :
       /\ ~IsRateLimit(error_str)
       /\ outcomes' = Append(outcomes, [raised |-> TRUE, text |-> error_str])
       /\ run_return' = ErrorPrefix \o error_str
  /\ eval_pc' = "returned"
  /\ UNCHANGED <<attempt, slept>>
  /\ UNCHANGED <<pipeline_vars, sql_vars, schema_vars, classify_vars>>

(* the loop is used up: return "ERROR: Max retries exceeded due to rate limiting" *)
GiveUp ==
  /\ eval_pc = "running" /\ attempt = MAX_RETRIES
  /\ run_return' = MaxRetriesMessage
  /\ eval_pc' = "returned"
  /\ UNCHANGED <<attempt, outcomes, slept>>
  /\ UNCHANGED <<pipeline_vars, sql_vars, schema_vars, classify_vars>>

NextEval == AttemptAnswers \/ AttemptRateLimited \/ AttemptFails \/ GiveUp

SpecEval == InitEval /\ [][NextEval]_vars

(* the awaited coroutine is run to its end: each awaited agent run and     *)
(* each asyncio.sleep comes back                                           *)
SpecEvalFair == SpecEval /\ WF_vars(NextEval)

(* attempt k raised and run_agent went on instead of returning *)
WentOnAfter(k) == k < Len(outcomes) \/ eval_pc = "running"

(* the text holds '429' or 'rate' as written *)
HoldsRateText(text) ==
  In(<<"4", "2", "9">>, text) \/ In(<<"r", "a", "t", "e">>, text)

(* the text holds '429', or 'rate' in any letter case *)
HoldsRateTextAnyCase(text) ==
  In(<<"4", "2", "9">>, text) \/ In(<<"r", "a", "t", "e">>, lower(text))

(* what the claim says of the attempts made so far, with `rate_limited`    *)
(* telling the exception texts that are retried                            *)
RetryDiscipline(rate_limited(_)) ==
  /\ Len(outcomes) <= MAX_RETRIES
  /\ Len(slept) <= Len(outcomes)
  /\ \A k \in DOMAIN slept :
       /\ slept[k] = INITIAL_RETRY_DELAY * (2 ^ (k - 1))
       /\ outcomes[k].raised /\ rate_limited(outcomes[k].text)
  /\ \A k \in DOMAIN outcomes :
       /\ outcomes[k].raised /\ WentOnAfter(k) => rate_limited(outcomes[k].text)
       /\ outcomes[k].raised /\ rate_limited(outcomes[k].text)
            => k \in DOMAIN slept /\ (k < MAX_RETRIES => WentOnAfter(k))
       /\ outcomes[k].raised /\ ~rate_limited(outcomes[k].text)
            => /\ k = Len(outcomes) /\ eval_pc = "returned"
               /\ run_return = ErrorPrefix \o outcomes[k].text
       /\ ~outcomes[k].raised
            => /\ k = Len(outcomes) /\ eval_pc = "returned"
               /\ run_return # <<>>
  /\ (eval_pc = "returned" /\ Len(slept) = MAX_RETRIES) => run_return = MaxRetriesMessage
  /\ eval_pc = "returned" => run_return # <<>>

====
